---------------------------- MODULE Spec2Model ----------------------------
(***************************************************************************)
(* Meeting-location optimiser (four-one-api): the connection finder of     *)
(* data.py, the normaliser and ranker of helpers/scoringMethod.py, and the *)
(* orchestration of scoring.py and dashboard.py, the geographic filter of  *)
(* filter.py and the distance estimate of helpers/haversineMethod.py.      *)
(*                                                                         *)
(* The specifications share the module, one per component:                 *)
(*   SpecConn   get_connecting_flights over a joined schedule              *)
(*   SpecScore  normalize_results followed by calculate_best_option        *)
(*   SpecOpt    convert_input_to_output and score_meeting_location         *)
(*   SpecGeom   point_in_polygon and the filter over a bounding polygon    *)
(*   SpecFilter get_filtered_candidates                                    *)
(*   SpecEst    get_best_travel_time                                       *)
(*   SpecPool   concurrent requests over CANDIDATE_CITIES                  *)
(* Each draws the inputs of its functions from bounded sets in its initial *)
(* states and applies the functions in its actions.                        *)
(*                                                                         *)
(* An optional value (Python's None, a null cell of a frame) is a set of   *)
(* at most one element: {} is None or null, {v} is the value v.            *)
(***************************************************************************)
EXTENDS Integers, Sequences, FiniteSets, TLC

VARIABLES
    cSchedule,   \* data.py: what load_schedule returned
    cArgs,       \* data.py: the arguments of get_connecting_flights
    cResult,     \* data.py: the outcome of get_connecting_flights
    cStream,     \* data.py: the generator of stream_connecting_flights
    sTable,      \* scoringMethod.py: the frame given to normalize_results
    sNorm,       \* scoringMethod.py: what normalize_results returned
    sRank,       \* scoringMethod.py: what calculate_best_option returned
    oEnv,        \* the data files and the geographic filter's outcome
    oInput,      \* dashboard.py: the arguments of convert_input_to_output
    oArgs,       \* scoring.py: the arguments of score_meeting_location
    oResult,     \* scoring.py: the outcome of score_meeting_location
    oOutput,     \* dashboard.py: what convert_input_to_output returned
    gCall,       \* filter.py: which function the geometry state calls
    gPoint,      \* filter.py: the point given to point_in_polygon
    gPolygon,    \* filter.py: the polygon given to point_in_polygon
    gInside,     \* filter.py: the outcome of point_in_polygon
    gLocations,  \* filter.py: an attendee_locations dict
    gSplit,      \* how many of its first items form the smaller dict
    gPool,       \* filter.py: the candidates given to the filter
    gKept,       \* filter.py: what the filter kept for either dict
    fAttendees,  \* filter.py: the argument of get_filtered_candidates
    fFound,      \* the cities Nominatim answers for
    fResult,     \* filter.py: what get_filtered_candidates returned
    eUser,       \* haversineMethod.py: user_loc of get_best_travel_time
    eCandidate,  \* haversineMethod.py: candidate_loc
    eSpeeds,     \* haversineMethod.py: speeds
    eBest,       \* haversineMethod.py: what get_best_travel_time returned
    pTable,      \* candidates.py: the global CANDIDATE_CITIES dict
    pReq         \* the concurrent requests: their position and local dicts

connVars == <<cSchedule, cArgs, cResult, cStream>>

scoreVars == <<sTable, sNorm, sRank>>

optVars == <<oEnv, oInput, oArgs, oResult, oOutput>>

geomVars == <<gCall, gPoint, gPolygon, gInside, gLocations, gSplit, gPool,
             gKept>>

\* The components added to the first three.
filterVars == <<fAttendees, fFound, fResult>>

estVars == <<eUser, eCandidate, eSpeeds, eBest>>

poolVars == <<pTable, pReq>>

extVars == <<geomVars, filterVars, estVars, poolVars>>

vars == <<cSchedule, cArgs, cResult, cStream, sTable, sNorm, sRank,
          oEnv, oInput, oArgs, oResult, oOutput, extVars>>

\* ------------------------------------------------------------------ bounds

\* Longest schedule (number of legs in the date range).
MaxLegs == 3

\* Most rows (candidates) of a frame given to normalize_results.
MaxRows == 3

\* Most attendee cities of an optimisation request.
MaxAttendees == 2

\* Most candidate cities handed to score_meeting_location by a direct caller.
MaxCandidates == 2

\* The largest first and second coordinate of a point of the geometry.
MaxLat == 3
MaxLon == 1

\* Most vertices of a polygon given to point_in_polygon directly.
MaxVertices == 3

\* Most attendee locations given to calculate_bounding_polygon.
MaxLocations == 4

\* Most candidates given to filter_candidates_by_polygon.
MaxPool == 1

\* Most modes of a speeds dict other than custom_speeds.
MaxModes == 2

\* ------------------------------------------------------- generic helpers

SeqsUpTo(S, n) == UNION {[1..k -> S] : k \in 0..n}

Min2(a, b) == IF a <= b THEN a ELSE b

Max2(a, b) == IF a >= b THEN a ELSE b

\* The sequences over S of length at most n without a repeated element: the
\* keys of a dict, in insertion order.
DistinctSeqs(S, n) ==
    {q \in SeqsUpTo(S, n) :
        \A i, j \in 1..Len(q) : i # j => q[i] # q[j]}

Range(q) == {q[i] : i \in 1..Len(q)}

\* The first n elements of s (s[:n] in Python for n >= 0).
Take(s, n) == IF n <= 0 THEN <<>> ELSE SubSeq(s, 1, Min2(n, Len(s)))

\* An outcome of a call: a returned value or a raised exception.
Ok(v) == [status |-> "ok", value |-> v]
Raised == [status |-> "raised", value |-> <<>>]
NotCalled == [status |-> "none", value |-> <<>>]

\* ------------------------------------------------------ data.py: the data

\* str.upper() on the airport codes the model passes as origin/destination.
Upper(s) ==
    CASE s = "aaa" -> "AAA"
      [] s = "zzz" -> "ZZZ"
      [] OTHER -> s

\* One schedule row with what the emissions table holds for its
\* (CARRIER, FLTNO): has_emissions is FALSE when the emissions table has no
\* row for the key, co2 is {} when the row's ESTIMATED_CO2_TOTAL_TONNES is null.
\* DEPTIM and ARRTIM are the schedule's clock times, HHMM digits read as an
\* integer by cast(pl.Int32): "0850" is 850.
Leg(dep, arr, deptim, arrtim, has, co2) ==
    [DEPAPT |-> dep, ARRAPT |-> arr, DEPTIM |-> deptim, ARRTIM |-> arrtim,
     has_emissions |-> has, co2 |-> co2]

\* The legs a schedule of the model is made of.
ScheduleLegs ==
    { Leg("AAA", "HUB", 700, 850, TRUE, {100}),
      Leg("AAA", "HUB", 2200, 2350, TRUE, {100}),
      Leg("HUB", "ZZZ", 900, 1100, TRUE, {100}),
      Leg("HUB", "ZZZ", 930, 100, TRUE, {100}),
      Leg("HUB", "ZZZ", 1000, 1200, TRUE, {250}),
      Leg("HUB", "ZZZ", 40, 600, TRUE, {100}),
      Leg("HUB", "ZZZ", 1400, 1600, TRUE, {100}),
      Leg("AAA", "ZZZ", 930, 1130, TRUE, {100}),
      Leg("HUB", "ZZZ", 1000, 1200, TRUE, {}),
      Leg("HUB", "ZZZ", 900, 1100, FALSE, {}) }

\* load_schedule: the concatenation of the day files found, or, when no file
\* of the range exists, pl.LazyFrame(): a frame with no columns at all.
load_schedule(files_found, rows) ==
    IF files_found
    THEN [has_columns |-> TRUE, rows |-> rows]
    ELSE [has_columns |-> FALSE, rows |-> <<>>]

\* The inner join on (CARRIER, FLTNO) with the select of the ten columns; no
\* drop_nulls follows it in get_connecting_flights, so a row whose CO2 is null
\* stays.
JoinWithEmissions(rows) ==
    LET Matched(r) == r.has_emissions
    IN SelectSeq(rows, Matched)

\* ------------------------------------- data.py: get_connecting_flights

\* journey_time_mins: ARRTIM of the second leg minus DEPTIM of the first, plus
\* 24 * 60 when negative, on the integers as cast.
JourneyTime(first, second) ==
    LET d == second.ARRTIM - first.DEPTIM
    IN IF d < 0 THEN d + 24 * 60 ELSE d

\* matching_second: the second legs leaving the first leg's arrival airport
\* with min_depart <= DEPTIM <= max_depart.
MatchingSecond(first, second_flights, a) ==
    LET min_depart == first.ARRTIM + a.min_connection_mins
        max_depart == first.ARRTIM + a.max_connection_mins
        M(s) == /\ s.DEPAPT = first.ARRAPT
                /\ s.DEPTIM >= min_depart
                /\ s.DEPTIM <= max_depart
    IN SelectSeq(second_flights, M)

RECURSIVE InnerLoopNoBreak(_, _, _, _, _)
\* InnerLoop without the "if len(connections) >= limit: break" that ends it.
InnerLoopNoBreak(first, matching, a, j, connections) ==
    IF j > Len(matching) THEN Ok(connections)
    ELSE LET second == matching[j] IN
      IF first.co2 = {} \/ second.co2 = {} THEN Raised
      ELSE LET total_emissions ==
                   (CHOOSE x \in first.co2 : TRUE) + (CHOOSE y \in second.co2 : TRUE)
           IN
        IF a.max_emissions = {} THEN Raised
        ELSE IF total_emissions > (CHOOSE m \in a.max_emissions : TRUE)
        THEN InnerLoopNoBreak(first, matching, a, j + 1, connections)
        ELSE LET journey_time_mins == JourneyTime(first, second) IN
          IF /\ a.max_journey_time # {}
             /\ journey_time_mins > (CHOOSE m \in a.max_journey_time : TRUE)
          THEN InnerLoopNoBreak(first, matching, a, j + 1, connections)
          ELSE InnerLoopNoBreak(first, matching, a, j + 1,
                   Append(connections,
                       [first_flight |-> first, second_flight |-> second,
                        total_co2_emissions |-> total_emissions,
                        journey_time_minutes |-> journey_time_mins]))

RECURSIVE InnerLoop(_, _, _, _, _)
\* for second in matching_second.to_dicts(): ... from its j-th element on.
\* None + float and float > None raise TypeError.
InnerLoop(first, matching, a, j, connections) ==
    IF j > Len(matching) THEN Ok(connections)
    ELSE LET second == matching[j] IN
      IF first.co2 = {} \/ second.co2 = {} THEN Raised
      ELSE LET total_emissions ==
                   (CHOOSE x \in first.co2 : TRUE) + (CHOOSE y \in second.co2 : TRUE)
           IN
        IF a.max_emissions = {} THEN Raised
        ELSE IF total_emissions > (CHOOSE m \in a.max_emissions : TRUE)
        THEN InnerLoop(first, matching, a, j + 1, connections)
        ELSE LET journey_time_mins == JourneyTime(first, second) IN
          IF /\ a.max_journey_time # {}
             /\ journey_time_mins > (CHOOSE m \in a.max_journey_time : TRUE)
          THEN InnerLoop(first, matching, a, j + 1, connections)
          ELSE LET connection ==
                       [first_flight |-> first, second_flight |-> second,
                        total_co2_emissions |-> total_emissions,
                        journey_time_minutes |-> journey_time_mins]
                   appended == Append(connections, connection)
               IN IF Len(appended) >= a.limit
                  THEN Ok(appended)
                  ELSE InnerLoop(first, matching, a, j + 1, appended)

RECURSIVE OuterLoop(_, _, _, _, _)
\* for first in first_flights.to_dicts(): ... from its i-th element on.
OuterLoop(first_flights, second_flights, a, i, connections) ==
    IF i > Len(first_flights) THEN Ok(connections)
    ELSE IF Len(connections) >= a.limit THEN Ok(connections)
    ELSE LET first == first_flights[i]
             r == InnerLoop(first, MatchingSecond(first, second_flights, a),
                            a, 1, connections)
         IN IF r.status = "raised" THEN r
            ELSE OuterLoop(first_flights, second_flights, a, i + 1, r.value)

\* first_flights: the joined rows leaving origin.upper().
FirstFlights(joined, a) ==
    LET F(r) == r.DEPAPT = Upper(a.origin)
    IN SelectSeq(joined, F)

\* second_flights: the joined rows arriving at destination.upper().
SecondFlights(joined, a) ==
    LET S(r) == r.ARRAPT = Upper(a.destination)
    IN SelectSeq(joined, S)

\* get_connecting_flights(schedule, emissions, origin, destination, ...).
\* collect() of a plan over a frame without the joined columns raises
\* ColumnNotFoundError.
get_connecting_flights(schedule, a) ==
    IF ~schedule.has_columns THEN Raised
    ELSE LET joined == JoinWithEmissions(schedule.rows)
         IN OuterLoop(FirstFlights(joined, a), SecondFlights(joined, a),
                      a, 1, <<>>)

\* ---------------------------------- data.py: stream_connecting_flights

\* The generator object: where its body is suspended (the i-th first flight,
\* the j-th matching second flight), its count, and what it has yielded.
\* status is "none" before the first next(), "suspended" at a yield,
\* "exhausted" after the body ended and "raised" after an exception.
Generator(status, i, j, count, yielded) ==
    [status |-> status, i |-> i, j |-> j, count |-> count, yielded |-> yielded]

NotStarted == Generator("none", 0, 0, 0, <<>>)

RECURSIVE StreamOuter(_, _, _, _, _)
RECURSIVE StreamInner(_, _, _, _, _, _)
\* for first in first_flights.to_dicts(): at its i-th element, with
\* "if count >= limit: break" first.
StreamOuter(first_flights, second_flights, a, i, g) ==
    IF i > Len(first_flights) \/ g.count >= a.limit
    THEN Generator("exhausted", i, 0, g.count, g.yielded)
    ELSE StreamInner(first_flights, second_flights, a, i, 1, g)

\* for second in matching_second.to_dicts(): at its j-th element; the lazy
\* query of the second flights is collected again for every first flight.
StreamInner(first_flights, second_flights, a, i, j, g) ==
    LET first == first_flights[i]
        matching == MatchingSecond(first, second_flights, a)
    IN IF j > Len(matching)
       THEN StreamOuter(first_flights, second_flights, a, i + 1, g)
       ELSE LET second == matching[j] IN
         IF first.co2 = {} \/ second.co2 = {} \/ a.max_emissions = {}
         THEN Generator("raised", i, j, g.count, g.yielded)
         ELSE LET total_emissions ==
                      (CHOOSE x \in first.co2 : TRUE)
                          + (CHOOSE y \in second.co2 : TRUE)
                  journey_time_mins == JourneyTime(first, second)
              IN
           IF total_emissions > (CHOOSE m \in a.max_emissions : TRUE)
           THEN StreamInner(first_flights, second_flights, a, i, j + 1, g)
           ELSE IF /\ a.max_journey_time # {}
                   /\ journey_time_mins > (CHOOSE m \in a.max_journey_time : TRUE)
           THEN StreamInner(first_flights, second_flights, a, i, j + 1, g)
           ELSE Generator("suspended", i, j, g.count,
                    Append(g.yielded,
                        [first_flight |-> first, second_flight |-> second,
                         total_co2_emissions |-> total_emissions,
                         journey_time_minutes |-> journey_time_mins]))

\* The generator resumed after its yield without "count += 1".
StreamResumeNoCount(first_flights, second_flights, a, g) ==
    StreamInner(first_flights, second_flights, a, g.i, g.j + 1, g)

\* The generator resumed after its yield: count += 1, then
\* "if count >= limit: break" out of the inner loop.
StreamResume(first_flights, second_flights, a, g) ==
    LET counted == Generator(g.status, g.i, g.j, g.count + 1, g.yielded)
    IN IF counted.count >= a.limit
       THEN StreamOuter(first_flights, second_flights, a, g.i + 1, counted)
       ELSE StreamInner(first_flights, second_flights, a, g.i, g.j + 1, counted)

\* One next() of stream_connecting_flights(schedule, emissions, origin, ...)
\* from the generator state g.  Calling the function runs nothing; the first
\* next() collects the first flights, which raises ColumnNotFoundError over a
\* frame without the joined columns.
stream_connecting_flights(schedule, a, g) ==
    IF ~schedule.has_columns THEN Generator("raised", 0, 0, 0, <<>>)
    ELSE LET joined == JoinWithEmissions(schedule.rows)
             first_flights == FirstFlights(joined, a)
             second_flights == SecondFlights(joined, a)
         IN IF g.status = "none"
            THEN StreamOuter(first_flights, second_flights, a, 1, g)
            ELSE StreamResume(first_flights, second_flights, a, g)

\* ------------------------- helpers/scoringMethod.py: numbers of a frame

\* A float of a frame: NaN, or the rational num / den with den > 0.
NaN == [nan |-> TRUE, num |-> 0, den |-> 1]
Frac(n, d) == [nan |-> FALSE, num |-> n, den |-> d]
Zero == Frac(0, 1)

\* IEEE arithmetic and comparison: NaN propagates through + and *, and every
\* comparison with NaN is false.
FAdd(a, b) ==
    IF a.nan \/ b.nan THEN NaN
    ELSE Frac(a.num * b.den + b.num * a.den, a.den * b.den)
FMul(a, k) == IF a.nan THEN NaN ELSE Frac(a.num * k, a.den)
FLess(a, b) == ~a.nan /\ ~b.nan /\ a.num * b.den < b.num * a.den
FLeq(a, b) == ~a.nan /\ ~b.nan /\ a.num * b.den <= b.num * a.den
FEq(a, b) == ~a.nan /\ ~b.nan /\ a.num * b.den = b.num * a.den

\* ------------------------ helpers/scoringMethod.py: normalize_results

\* Series.min() and Series.max(): over the cells that are not null.
ColumnMin(cells) ==
    LET vals == UNION {cells[i] : i \in 1..Len(cells)}
    IN CHOOSE v \in vals : \A w \in vals : v <= w
ColumnMax(cells) ==
    LET vals == UNION {cells[i] : i \in 1..Len(cells)}
    IN CHOOSE v \in vals : \A w \in vals : w <= v

\* One "--- Normalize ... ---" block: the column is in the frame, the frame
\* has rows and not every cell is null -> np.where(range == 0, 0.0,
\* (col - min) / range), where a null cell gives NaN; otherwise 0.0.
NormalizeColumn(present, cells) ==
    IF present /\ Len(cells) > 0 /\ (\E i \in 1..Len(cells) : cells[i] # {})
    THEN LET lo == ColumnMin(cells)
             range == ColumnMax(cells) - lo
         IN [i \in 1..Len(cells) |->
                IF range = 0 THEN Zero
                ELSE IF cells[i] = {} THEN NaN
                ELSE Frac((CHOOSE v \in cells[i] : TRUE) - lo, range)]
    ELSE [i \in 1..Len(cells) |-> Zero]

\* normalize_results(results_df): the frame with co2_norm and time_norm added.
normalize_results(df) ==
    LET co2 == NormalizeColumn(df.has_total_co2,
                   [i \in 1..Len(df.rows) |-> df.rows[i].total_co2])
        time == NormalizeColumn(df.has_max_travel_hours,
                   [i \in 1..Len(df.rows) |-> df.rows[i].max_travel_hours])
    IN [i \in 1..Len(df.rows) |->
           [total_co2 |-> df.rows[i].total_co2,
            max_travel_hours |-> df.rows[i].max_travel_hours,
            co2_norm |-> co2[i], time_norm |-> time[i]]]

\* --------------------- helpers/scoringMethod.py: calculate_best_option

\* df['final_score'] of one row: 0.0, plus norm * weight for each criterion in
\* weights whose normalized column the frame has.  normalize_results adds
\* time_norm and co2_norm and never cost_norm, so 'cost' adds nothing.  A
\* weights argument that is not a dict (is_dict FALSE) adds nothing at all.
FinalScore(row, weights) ==
    IF ~weights.is_dict THEN Zero
    ELSE LET with_time ==
                 IF weights.time # {}
                 THEN FAdd(Zero, FMul(row.time_norm, CHOOSE w \in weights.time : TRUE))
                 ELSE Zero
         IN IF weights.co2 # {}
            THEN FAdd(with_time, FMul(row.co2_norm, CHOOSE w \in weights.co2 : TRUE))
            ELSE with_time

\* df.sort_values(by='final_score', ascending=True).iloc[0] descending instead:
\* the row the sort would put first with ascending=False.
BestRowsDescending(scores) ==
    IF \A i \in 1..Len(scores) : scores[i].nan THEN {1}
    ELSE {i \in 1..Len(scores) :
             /\ ~scores[i].nan
             /\ \A j \in 1..Len(scores) : ~FLess(scores[i], scores[j])}

\* df.sort_values(by='final_score', ascending=True).iloc[0]: the rows the
\* sort may put first.  NaN scores sort last, in row order.  The sort is
\* pandas' default quicksort, which is not stable: among the rows that share
\* the least score any may come first.
BestRows(scores) ==
    IF \A i \in 1..Len(scores) : scores[i].nan THEN {1}
    ELSE {i \in 1..Len(scores) :
             /\ ~scores[i].nan
             /\ \A j \in 1..Len(scores) : ~FLess(scores[j], scores[i])}

\* calculate_best_option(normalized_df, weights) with the sort putting row
\* `best` first: the scores of the rows and the winning row, or the empty
\* Series for an empty frame.
calculate_best_option(ndf, weights, best) ==
    IF Len(ndf) = 0
    THEN [status |-> "empty", weights |-> weights, final_score |-> <<>>,
          winner |-> 0]
    ELSE [status |-> "ranked", weights |-> weights,
          final_score |-> [i \in 1..Len(ndf) |-> FinalScore(ndf[i], weights)],
          winner |-> best]

\* ------------------------------- scoring.py: the numbers of the optimiser

RECURSIVE GCD(_, _)
GCD(a, b) == IF b = 0 THEN a ELSE GCD(b, a % b)

Abs(n) == IF n < 0 THEN -n ELSE n

\* The optimiser's floats are rationals kept in lowest terms.
Lowest(a) ==
    LET g == GCD(Abs(a.num), a.den)
    IN Frac(a.num \div g, a.den \div g)

One == Frac(1, 1)
Half == Frac(1, 2)

RECURSIVE RatLess(_, _, _, _)
\* n1 / d1 < n2 / d2 for d1, d2 > 0, by comparing the integer parts and then
\* the inverted fractional parts.
RatLess(n1, d1, n2, d2) ==
    LET q1 == n1 \div d1
        q2 == n2 \div d2
        r1 == n1 % d1
        r2 == n2 % d2
    IN IF q1 # q2 THEN q1 < q2
       ELSE IF r2 = 0 THEN FALSE
       ELSE IF r1 = 0 THEN TRUE
       ELSE RatLess(d2, r2, d1, r1)

HLess(a, b) == RatLess(a.num, a.den, b.num, b.den)
HAdd(a, b) == Lowest(FAdd(a, b))
HMul(a, k) == Lowest(FMul(a, k))
HDiv(a, k) == Lowest(Frac(a.num, a.den * k))

\* Python's min(a, b): b when b < a, otherwise a.
HMin(a, b) == IF HLess(b, a) THEN b ELSE a

\* Python's max(values) of a non-empty collection.
HMax(values) == CHOOSE x \in values : \A y \in values : ~HLess(x, y)

\* round(x, 2): the nearest multiple of 1/100, an exact tie going to the even
\* one.
Round2(a) ==
    LET n == 100 * a.num
        q == n \div a.den
        r == n % a.den
    IN Lowest(Frac(IF 2 * r < a.den THEN q
                   ELSE IF 2 * r > a.den THEN q + 1
                   ELSE IF q % 2 = 0 THEN q ELSE q + 1,
                   100))

\* ------------------------------------ candidates.py: the candidate table

\* The keys of CANDIDATE_CITIES the model keeps, in the table's order.
CandidateTable == <<"SYD", "SIN", "BOM">>

\* CANDIDATE_CITIES[code]["city"].
CandidateCity(code) ==
    CASE code = "SYD" -> "Sydney"
      [] code = "SIN" -> "Singapore"
      [] code = "BOM" -> "Mumbai"

\* The city names a request may list as attendees; "Atlantis" is neither in
\* the table nor found by geocoding.
AttendeeCityNames == {"Mumbai", "Sydney", "Atlantis"}

\* get_airport_code_by_city: the first code of the table whose city is
\* city_name, or None.
get_airport_code_by_city(city_name) ==
    LET hits == {i \in 1..Len(CandidateTable) :
                    CandidateCity(CandidateTable[i]) = city_name}
    IN IF hits = {} THEN {}
       ELSE {CandidateTable[CHOOSE i \in hits : \A j \in hits : i <= j]}

\* city_to_coords: the coordinates of the table row of the city, or None when
\* the table has no such city and Nominatim finds nothing.  A pair of
\* coordinates is named by the table row that holds it.
city_to_coords(city_name) ==
    IF get_airport_code_by_city(city_name) # {}
    THEN get_airport_code_by_city(city_name)
    ELSE {}

\* _get_airport_codes: city_to_airport.get(city, city.upper()[:3]).
get_airport_codes(city) ==
    CASE city = "Mumbai" -> "BOM"
      [] city = "Sydney" -> "SYD"
      [] city = "Atlantis" -> "ATL"

\* ------------------------------- helpers/haversineMethod.py: the estimate

\* haversine(coord1, coord2) between the coordinates of two table rows, in
\* whole kilometres.
haversine(coord1, coord2) ==
    CASE coord1 = coord2 -> 0
      [] {coord1, coord2} = {"SYD", "SIN"} -> 6307
      [] {coord1, coord2} = {"SYD", "BOM"} -> 10159
      [] {coord1, coord2} = {"SIN", "BOM"} -> 3905

\* custom_speeds: the items of the dict in its order, speeds in km/h.
custom_speeds ==
    <<[mode |-> "walking", speed |-> 5], [mode |-> "cycling", speed |-> 15],
      [mode |-> "driving", speed |-> 60], [mode |-> "flying", speed |-> 800]>>

\* "time <= best_time": a mode that only ties the best replaces it.
TimeImprovesOrTies(time, best_time) ==
    best_time = {} \/ \E b \in best_time : ~HLess(b, time)

\* "time < best_time", where best_time is float('inf') ({}) or a time.
TimeImproves(time, best_time) ==
    best_time = {} \/ \E b \in best_time : HLess(time, b)

\* The loop of get_best_travel_time over speeds.items() from item i on;
\* best is (best_time, best_mode), with {} for float('inf') and for None.
RECURSIVE BestTimeLoop(_, _, _, _)
BestTimeLoop(distance, speeds, i, best) ==
    IF i > Len(speeds) THEN best
    ELSE LET time == Lowest(Frac(distance * 60, speeds[i].speed))
         IN BestTimeLoop(distance, speeds, i + 1,
                         IF TimeImproves(time, best.time)
                         THEN [time |-> {time}, mode |-> {speeds[i].mode}]
                         ELSE best)

\* get_best_travel_time(user_loc, candidate_loc, speeds): (best_time,
\* best_mode), the time in minutes.
get_best_travel_time(user_loc, candidate_loc, speeds) ==
    BestTimeLoop(haversine(user_loc, candidate_loc), speeds, 1,
                 [time |-> {}, mode |-> {}])

\* "travel_time, _ = get_best_travel_time(..., custom_speeds)".
EstimateMinutes(user_loc, candidate_loc) ==
    CHOOSE t \in get_best_travel_time(user_loc, candidate_loc,
                                      custom_speeds).time : TRUE

\* ------------------------------------------- scoring.py: the flight rows

\* The rows stream_joined_flights may yield: DEPTIM and ARRTIM are strings
\* (the CSVs are scanned with infer_schema_length=0), the CO2 is a float and
\* never null (drop_nulls), and no row has an ELPTIM key.
OptFlights ==
    { [DEPAPT |-> "BOM", ARRAPT |-> "SIN", DEPTIM |-> "0900",
       ARRTIM |-> "1430", co2 |-> 100],
      [DEPAPT |-> "SYD", ARRAPT |-> "SIN", DEPTIM |-> "1000",
       ARRTIM |-> "1800", co2 |-> 200],
      [DEPAPT |-> "BOM", ARRAPT |-> "SYD", DEPTIM |-> "2300",
       ARRTIM |-> "0100", co2 |-> 400] }

\* int(dep_time) on the clock strings of the rows; None stands for ValueError.
IntOfClock(s) ==
    CASE s = "0100" -> {100}
      [] s = "0900" -> {900}
      [] s = "1000" -> {1000}
      [] s = "1430" -> {1430}
      [] s = "1800" -> {1800}
      [] s = "2300" -> {2300}
      [] OTHER -> {}

\* The travel_times entries of a list of flights: for each flight whose clock
\* strings convert, (arr_time - dep_time, plus 1440 when negative) / 60.0.
TravelTimes(flights) ==
    {LET dep_time == CHOOSE d \in IntOfClock(f.DEPTIM) : TRUE
         arr_time == CHOOSE a \in IntOfClock(f.ARRTIM) : TRUE
         duration_mins == arr_time - dep_time
     IN Lowest(Frac(IF duration_mins < 0 THEN duration_mins + 1440
                    ELSE duration_mins, 60)) :
        f \in {g \in flights : IntOfClock(g.DEPTIM) # {}
                               /\ IntOfClock(g.ARRTIM) # {}}}

\* max(travel_times) if travel_times else 0.
MaxTravel(flights) ==
    IF TravelTimes(flights) = {} THEN Zero ELSE HMax(TravelTimes(flights))

RECURSIVE SumCo2(_)
\* sum(co2_values) over the flights.
SumCo2(flights) ==
    IF flights = {} THEN 0
    ELSE LET f == CHOOSE g \in flights : TRUE
         IN f.co2 + SumCo2(flights \ {f})

\* ---------------------------------- scoring.py: score_meeting_location

\* datetime.strptime(s, "%Y-%m-%d") on the date strings of the model: the day
\* counted from 2025-12-10, or None for ValueError.
Strptime(s) ==
    CASE s = "2025-12-10" -> {0}
      [] s = "2025-12-15" -> {5}
      [] OTHER -> {}

\* The body of "for attendee_city, attendee_airport in ...": the route option
\* and the travel hours of one attendee to one candidate.  With flights of
\* the pair: the flights and their longest travel time.  Without, or when
\* streaming the joined data raises: the haversine estimate, which raises
\* KeyError when attendee_coords lacks the city.
PairRoute(attendee_city, candidate_code, args, env) ==
    LET attendee_airport == get_airport_codes(attendee_city)
        flights_data ==
            IF env.data = "ok"
            THEN {f \in env.flights : /\ f.DEPAPT = attendee_airport
                                      /\ f.ARRAPT = candidate_code}
            ELSE {}
    IN IF flights_data # {}
       THEN [kind |-> "flights", flights |-> flights_data,
             hours |-> MaxTravel(flights_data)]
       ELSE IF attendee_city \in DOMAIN args.attendee_coords
       THEN [kind |-> "estimate", flights |-> {},
             hours |-> HDiv(EstimateMinutes(
                                args.attendee_coords[attendee_city],
                                candidate_code), 60)]
       ELSE [kind |-> "raised", flights |-> {}, hours |-> Zero]

\* all_route_options: for each candidate, in order, the route options of the
\* attendees, in order.
AllRouteOptions(args, env) ==
    [idx \in 1..Len(args.candidates) |->
        [k \in 1..Len(args.attendees) |->
            PairRoute(args.attendees[k], args.candidates[idx], args, env)]]

\* The scoring loop's state when it starts: no best candidate (best_score is
\* inf, shown as None) and no score.
NoScores == [best_candidate |-> {}, best_score |-> {}, scores |-> <<>>]

\* scores[candidate_code] = score.
WithScore(scores, candidate_code, score) ==
    [c \in DOMAIN scores \cup {candidate_code} |->
        IF c = candidate_code THEN score ELSE scores[c]]

\* The except branch of the scoring loop, after an exception alone.
ScoringFailedTakesBest(acc, candidate_code) ==
    [best_candidate |-> IF acc.best_score = {} THEN {candidate_code}
                        ELSE acc.best_candidate,
     best_score |-> IF acc.best_score = {} THEN {One} ELSE acc.best_score,
     scores |-> WithScore(acc.scores, candidate_code, One)]

\* The except branch of the scoring loop: the candidate scores 1.0 and the
\* best candidate stays as it was.
ScoringFailed(acc, candidate_code) ==
    [acc EXCEPT !.scores = WithScore(acc.scores, candidate_code, One)]

\* One round of "for idx, candidate_code in enumerate(candidate_list)".  Only
\* the first attendee's route option, all_route_options[idx][0], is read;
\* without attendees the index raises IndexError.  The weights are in tenths.
ScoreCandidate(acc, candidate_code, route_options, args) ==
    IF route_options = <<>> THEN ScoringFailed(acc, candidate_code)
    ELSE
      LET first == route_options[1]
          max_travel == IF first.kind = "flights"
                        THEN MaxTravel(first.flights)
                        ELSE first.hours
          travel_score == IF args.time_limit_hours > 0
                          THEN HMin(HDiv(max_travel, args.time_limit_hours), One)
                          ELSE Zero
          co2_score ==
              IF first.kind = "flights"
              THEN HMin(Lowest(Frac(SumCo2(first.flights),
                                    Cardinality(first.flights) * 500)), One)
              ELSE Half
          total_weight == args.time_weight + args.emissions_weight
          score == IF total_weight > 0
                   THEN HDiv(HAdd(HMul(travel_score, args.time_weight),
                                  HMul(co2_score, args.emissions_weight)),
                             total_weight)
                   ELSE Zero
          better == \/ acc.best_score = {}
                    \/ \E b \in acc.best_score : HLess(score, b)
      IN [best_candidate |-> IF better THEN {candidate_code}
                             ELSE acc.best_candidate,
          best_score |-> IF better THEN {score} ELSE acc.best_score,
          scores |-> WithScore(acc.scores, candidate_code, score)]

RECURSIVE ScoreLoop(_, _, _, _)
\* The scoring loop from its idx-th candidate on.
ScoreLoop(acc, idx, routes, args) ==
    IF idx > Len(args.candidates) THEN acc
    ELSE ScoreLoop(ScoreCandidate(acc, args.candidates[idx], routes[idx], args),
                   idx + 1, routes, args)

\* attendee_travel_times.get(best_candidate, {}) picking another candidate's
\* entry whenever there is one.
OtherAttendeeTravelHours(attendee_travel_times, best_candidate) ==
    LET others == DOMAIN attendee_travel_times \ {best_candidate}
    IN IF others = {} THEN attendee_travel_times[best_candidate]
       ELSE attendee_travel_times[CHOOSE c \in others : TRUE]

\* attendee_travel_times.get(best_candidate, {}).
BestAttendeeTravelHours(attendee_travel_times, best_candidate) ==
    IF best_candidate \in DOMAIN attendee_travel_times
    THEN attendee_travel_times[best_candidate]
    ELSE <<>>

\* What score_meeting_location returns when the dates do not parse or the
\* data does not load: no best candidate, and no 'attendee_travel_hours' key.
LoadFailed ==
    [best_candidate |-> {}, best_candidate_name |-> {}, scores |-> <<>>,
     has_attendee_travel_hours |-> FALSE, attendee_travel_hours |-> <<>>]

\* An outcome of the optimiser's calls; None is {} and a value v is {v}.
OptOk(v) == [status |-> "ok", value |-> v]
OptRaised == [status |-> "raised", value |-> {}]
OptNotCalled == [status |-> "none", value |-> {}]

\* score_meeting_location(attendee_cities, attendee_coords, candidate_cities,
\* start_date, end_date, time_limit_hours, time_weight, emissions_weight).
\* env.data is "load_raises" when load_emissions raises, "stream_raises" when
\* collecting the join raises (no schedule file in the range) and "ok" when
\* the join yields env.flights.  compute_travel_scores is called on
\* all_route_options and its result is never read.
score_meeting_location(args, env) ==
    IF \/ Strptime(args.start_date) = {}
       \/ Strptime(args.end_date) = {}
       \/ env.data = "load_raises"
    THEN OptOk({LoadFailed})
    ELSE
      LET routes == AllRouteOptions(args, env)
          attendee_travel_times ==
              [c \in Range(args.candidates) |->
                  LET idx == CHOOSE i \in 1..Len(args.candidates) :
                                 args.candidates[i] = c
                  IN [a \in Range(args.attendees) |->
                         LET k == CHOOSE i \in 1..Len(args.attendees) :
                                      args.attendees[i] = a
                         IN routes[idx][k].hours]]
          acc == ScoreLoop(NoScores, 1, routes, args)
      IN IF \E idx \in 1..Len(args.candidates) :
              \E k \in 1..Len(args.attendees) : routes[idx][k].kind = "raised"
         THEN OptRaised
         ELSE OptOk({[best_candidate |-> acc.best_candidate,
                      best_candidate_name |->
                          {CandidateCity(c) : c \in acc.best_candidate},
                      scores |-> acc.scores,
                      has_attendee_travel_hours |-> TRUE,
                      attendee_travel_hours |->
                          IF acc.best_candidate = {} THEN <<>>
                          ELSE BestAttendeeTravelHours(
                                   attendee_travel_times,
                                   CHOOSE c \in acc.best_candidate : TRUE)]})

\* -------------------------------- dashboard.py: convert_input_to_output

\* datetime.fromisoformat(s.replace("Z", "+00:00")) on the window strings of
\* the model: the hours since 2025-12-10T00:00Z, or None for ValueError.
FromIsoFormat(s) ==
    CASE s = "2025-12-10T09:00:00Z" -> {9}
      [] s = "2025-12-10 09:00:00+00:00" -> {9}
      [] s = "2025-12-10T17:00:00Z" -> {17}
      [] s = "2025-12-15T17:00:00Z" -> {137}
      [] OTHER -> {}

\* s.split("T")[0].
SplitT(s) ==
    CASE s = "2025-12-10T09:00:00Z" -> "2025-12-10"
      [] s = "2025-12-10T17:00:00Z" -> "2025-12-10"
      [] s = "2025-12-15T17:00:00Z" -> "2025-12-15"
      [] OTHER -> s

\* The filtered candidates handed on as they are, without the fallback to
\* the whole table.
CandidatesToScoreNoFallback(filter) ==
    LET Kept(code) == filter.kind = "ok" /\ code \in filter.codes
    IN SelectSeq(CandidateTable, Kept)

\* The candidate set handed to the scorer: the filtered candidates, or every
\* row of CANDIDATE_CITIES when get_filtered_candidates raises, returns an
\* error dict or filters every candidate out.
CandidatesToScore(filter) ==
    LET Kept(code) == code \in filter.codes
    IN IF filter.kind = "ok" /\ SelectSeq(CandidateTable, Kept) # <<>>
       THEN SelectSeq(CandidateTable, Kept)
       ELSE CandidateTable

\* The attendee_travel_hours of the output: the result's, with 0.0 for every
\* attendee it lacks, each rounded to two decimals.
OutputTravelHours(attendees, attendee_travel_hours) ==
    [city \in DOMAIN attendee_travel_hours \cup Range(attendees) |->
        IF city \in DOMAIN attendee_travel_hours
        THEN Round2(attendee_travel_hours[city])
        ELSE Round2(Zero)]

\* convert_input_to_output(input_data, time_weight, emissions_weight): the
\* arguments it calls score_meeting_location with (when it gets there), what
\* the call returns, and the output or None.  Of the output the model keeps
\* event_location, total_co2 and attendee_travel_hours.
convert_input_to_output(input, env) ==
    LET nothing == [args |-> OptNotCalled, result |-> OptNotCalled,
                    output |-> OptOk({})]
        attendees == input.attendees
        start == input.availability_window.start
        end == input.availability_window.end
    IN IF attendees = <<>> THEN nothing
       ELSE IF \E k \in 1..Len(attendees) : city_to_coords(attendees[k]) = {}
       THEN nothing
       ELSE IF FromIsoFormat(start) = {} \/ FromIsoFormat(end) = {}
       THEN nothing
       ELSE
         LET args ==
                 [attendees |-> attendees,
                  attendee_coords |->
                      [c \in Range(attendees) |->
                          CHOOSE p \in city_to_coords(c) : TRUE],
                  candidates |-> CandidatesToScore(env.filter),
                  start_date |-> SplitT(start),
                  end_date |-> SplitT(end),
                  time_limit_hours |->
                      (CHOOSE e \in FromIsoFormat(end) : TRUE)
                          - (CHOOSE b \in FromIsoFormat(start) : TRUE),
                  time_weight |-> input.time_weight,
                  emissions_weight |-> input.emissions_weight]
             result == score_meeting_location(args, env)
             failed == [args |-> OptOk({args}), result |-> result,
                        output |-> OptOk({})]
         IN IF result.status = "raised" THEN failed
            ELSE LET r == CHOOSE v \in result.value : TRUE IN
              IF r.best_candidate = {} THEN failed
              ELSE [args |-> OptOk({args}), result |-> result,
                    output |->
                        OptOk({[event_location |-> r.best_candidate_name,
                                total_co2 |-> Round2(Zero),
                                attendee_travel_hours |->
                                    OutputTravelHours(attendees,
                                        r.attendee_travel_hours)]})]

\* --------------------------------------------- filter.py: the polygon test

\* A point is <<first coordinate, second coordinate>>: (lat, lon) in the
\* source, (x, y) inside point_in_polygon.  The model's points have integer
\* coordinates, on which the float arithmetic of the source is exact up to
\* far less than its tolerance of 1e-10, so a comparison "abs(d) < tolerance"
\* is d = 0.

\* The on-edge test of one edge p1 -> p2 (filter.py 97-106): the point is in
\* the edge's bounding box and, for an edge whose second coordinate is not
\* constant, on its line.  An edge with p1y = p2y is never tested.
OnEdge(point, p1, p2) ==
    LET x == point[1]  y == point[2]
        p1x == p1[1]  p1y == p1[2]
        p2x == p2[1]  p2y == p2[2]
    IN /\ Min2(p1y, p2y) <= y /\ y <= Max2(p1y, p2y)
       /\ Min2(p1x, p2x) <= x /\ x <= Max2(p1x, p2x)
       /\ p1y # p2y
       /\ IF p2x = p1x
          THEN x = p1x
          \* expected_x = p1x + (y - p1y) / slope, slope = dy / dx
          ELSE (x - p1x) * (p2y - p1y) = (y - p1y) * (p2x - p1x)

\* The ray-casting test of one edge (filter.py 108-112): whether the edge
\* flips "inside".  xinters = (y - p1y) * (p2x - p1x) / (p2y - p1y) + p1x.
Crosses(point, p1, p2) ==
    LET x == point[1]  y == point[2]
        p1x == p1[1]  p1y == p1[2]
        p2x == p2[1]  p2y == p2[2]
        dy == p2y - p1y
    IN /\ y > Min2(p1y, p2y) /\ y <= Max2(p1y, p2y)
       /\ x <= Max2(p1x, p2x)
       /\ \/ p1x = p2x
          \/ IF dy > 0
             THEN (x - p1x) * dy <= (y - p1y) * (p2x - p1x)
             ELSE (x - p1x) * dy >= (y - p1y) * (p2x - p1x)

\* The loop over i in range(1, len + 1) of point_in_polygon, from edge i on,
\* with p1 the previous vertex: TRUE as soon as an edge's on-edge test
\* succeeds, else the parity of the crossings.
RECURSIVE EdgeLoop(_, _, _, _, _)
EdgeLoop(point, polygon_vertices, i, p1, inside) ==
    IF i > Len(polygon_vertices) THEN inside
    ELSE LET p2 == polygon_vertices[(i % Len(polygon_vertices)) + 1]
         IN IF OnEdge(point, p1, p2) THEN TRUE
            ELSE EdgeLoop(point, polygon_vertices, i + 1, p2,
                          IF Crosses(point, p1, p2) THEN ~inside ELSE inside)

\* point_in_polygon(point, polygon_vertices): TRUE for a vertex; for an empty
\* polygon polygon_vertices[0] raises IndexError.
point_in_polygon(point, polygon_vertices) ==
    IF \E i \in 1..Len(polygon_vertices) : polygon_vertices[i] = point
    THEN OptOk({TRUE})
    ELSE IF polygon_vertices = <<>> THEN OptRaised
    ELSE OptOk({EdgeLoop(point, polygon_vertices, 1, polygon_vertices[1],
                         FALSE)})

\* -------------------------------------- filter.py: the bounding polygon

\* A dict of cities is the sequence of its items in insertion order; an item
\* is [code, city, point].

\* d[item.code] = item: a new key goes last, an old key keeps its place.
DictSet(d, item) ==
    IF \E i \in 1..Len(d) : d[i].code = item.code
    THEN [i \in 1..Len(d) |-> IF d[i].code = item.code THEN item ELSE d[i]]
    ELSE Append(d, item)

\* d.update(other).
RECURSIVE DictUpdate(_, _)
DictUpdate(d, other) ==
    IF other = <<>> THEN d
    ELSE DictUpdate(DictSet(d, Head(other)), Tail(other))

\* list(locations.values()).
DictPoints(d) == [i \in 1..Len(d) |-> d[i].point]

\* Twice the signed area of the triangle o, a, b: positive when b is to the
\* left of o -> a.
Cross(o, a, b) ==
    (a[1] - o[1]) * (b[2] - o[2]) - (a[2] - o[2]) * (b[1] - o[1])

\* r lies on the closed segment from p to q (r on their line is assumed).
Between(p, q, r) ==
    /\ Min2(p[1], q[1]) <= r[1] /\ r[1] <= Max2(p[1], q[1])
    /\ Min2(p[2], q[2]) <= r[2] /\ r[2] <= Max2(p[2], q[2])

\* p -> q is an edge of the convex hull of S walked counterclockwise: every
\* point is to the left of it or on the segment itself.
HullEdge(S, p, q) ==
    /\ q # p
    /\ \A r \in S : Cross(p, q, r) >= 0
    /\ \A r \in S : Cross(p, q, r) = 0 => Between(p, q, r)

\* The hull's vertices from p on, counterclockwise, until first comes back.
RECURSIVE HullWalk(_, _, _)
HullWalk(S, first, p) ==
    LET q == CHOOSE v \in S : HullEdge(S, p, v)
    IN IF q = first THEN <<p>> ELSE <<p>> \o HullWalk(S, first, q)

\* scipy.spatial.ConvexHull(points).vertices for 2-D points: Qhull raises on
\* points that span no area; otherwise the vertices of the hull come in
\* counterclockwise order, from a vertex the library picks.  The set of the
\* possible results; {} when the call raises.
ConvexHull(points) ==
    LET S == Range(points)
    IN IF \A a, b, c \in S : Cross(a, b, c) = 0 THEN {}
       ELSE {HullWalk(S, first, first) :
                first \in {p \in S : \E q \in S : HullEdge(S, p, q)}}

\* calculate_bounding_polygon(locations): the possible results.  Up to three
\* locations, and locations on which ConvexHull raises, are returned as
\* they are.
calculate_bounding_polygon(locations) ==
    LET coords == DictPoints(locations)
    IN IF Len(coords) < 3 THEN {coords}
       ELSE IF Len(coords) = 3 THEN {coords}
       ELSE IF ConvexHull(coords) = {} THEN {coords}
       ELSE ConvexHull(coords)

\* The dict comprehension of filter_candidates_by_polygon over all_cities
\* from item i on; raises when point_in_polygon does.
RECURSIVE FilterItems(_, _, _)
FilterItems(all_cities, polygon, i) ==
    IF i > Len(all_cities) THEN OptOk({<<>>})
    ELSE LET hit == point_in_polygon(all_cities[i].point, polygon)
             rest == FilterItems(all_cities, polygon, i + 1)
         IN IF hit.status # "ok" \/ rest.status # "ok" THEN OptRaised
            ELSE IF hit.value = {TRUE}
                 THEN OptOk({<<all_cities[i]>> \o (CHOOSE r \in rest.value : TRUE)})
                 ELSE rest

\* filter_candidates_by_polygon(candidate_cities, polygon, custom_cities):
\* custom_cities is <<>> for None.
filter_candidates_by_polygon(candidate_cities, polygon, custom_cities) ==
    FilterItems(DictUpdate(candidate_cities, custom_cities), polygon, 1)

\* ------------------------------------- filter.py: the filtered candidates

\* (CANDIDATE_CITIES[code]["lat"], CANDIDATE_CITIES[code]["lon"]), to the
\* nearest degree.
CandidatePoint(code) ==
    CASE code = "SYD" -> <<-34, 151>>
      [] code = "SIN" -> <<1, 104>>
      [] code = "BOM" -> <<19, 73>>

\* CANDIDATE_CITIES as a dict: the rows of CandidateTable.
CANDIDATE_CITIES ==
    [i \in 1..Len(CandidateTable) |->
        [code |-> CandidateTable[i],
         city |-> CandidateCity(CandidateTable[i]),
         point |-> CandidatePoint(CandidateTable[i])]]

\* The city names given to the filter: three of the table (one also in
\* lower case), three that only Nominatim may know, and one that nothing
\* knows.
FilterCityNames ==
    {"Mumbai", "mumbai", "Sydney", "Singapore", "Perth", "Perugia",
     "Sydenham", "Atlantis"}

\* The cities Nominatim can find when it answers.
GeocodedCities == {"Perth", "Perugia", "Sydenham"}

\* Where Nominatim puts them, to the nearest degree.
NominatimPoint(city_name) ==
    CASE city_name = "Perth" -> <<-32, 116>>
      [] city_name = "Perugia" -> <<43, 12>>
      [] city_name = "Sydenham" -> <<51, 0>>

\* get_coordinates_from_nominatim(city_name): the coordinates, or None when
\* the request fails or finds nothing; found is the set of cities the
\* service answers for.
get_coordinates_from_nominatim(city_name, found) ==
    IF city_name \in found THEN {NominatimPoint(city_name)} ELSE {}

\* city_name[:3].upper().
PseudoCode(city_name) ==
    CASE city_name = "Mumbai" -> "MUM"
      [] city_name = "mumbai" -> "MUM"
      [] city_name = "Sydney" -> "SYD"
      [] city_name = "Singapore" -> "SIN"
      [] city_name = "Perth" -> "PER"
      [] city_name = "Perugia" -> "PER"
      [] city_name = "Sydenham" -> "SYD"
      [] city_name = "Atlantis" -> "ATL"

\* city_name.lower().
Lower(city_name) ==
    CASE city_name = "Mumbai" -> "mumbai"
      [] city_name = "mumbai" -> "mumbai"
      [] city_name = "Sydney" -> "sydney"
      [] city_name = "Singapore" -> "singapore"
      [] city_name = "Perth" -> "perth"
      [] city_name = "Perugia" -> "perugia"
      [] city_name = "Sydenham" -> "sydenham"
      [] city_name = "Atlantis" -> "atlantis"

\* city_to_code.get(city_lower): the dict comprehension over the table keeps
\* the last code of a city; None when the table has no such city.
city_to_code(city_lower) ==
    LET hits == {i \in 1..Len(CANDIDATE_CITIES) :
                    Lower(CANDIDATE_CITIES[i].city) = city_lower}
    IN IF hits = {} THEN {}
       ELSE {CANDIDATE_CITIES[CHOOSE i \in hits : \A j \in hits : i >= j].code}

\* The loop of build_attendee_candidates from city i on.  A city of the
\* table is stored under its code; another city is stored under its
\* pseudo-code when Nominatim finds it and is skipped when it does not.
RECURSIVE BuildLoop(_, _, _, _)
BuildLoop(city_names, found, i, acc) ==
    IF i > Len(city_names) THEN acc
    ELSE LET city_name == city_names[i]
             code == city_to_code(Lower(city_name))
             coords == get_coordinates_from_nominatim(city_name, found)
         IN BuildLoop(city_names, found, i + 1,
              IF code # {}
              THEN [acc EXCEPT !.attendee_locations =
                      DictSet(@, [code |-> CHOOSE k \in code : TRUE,
                                  city |-> city_name,
                                  point |-> CandidatePoint(CHOOSE k \in code : TRUE)])]
              ELSE IF coords # {}
              THEN LET item == [code |-> PseudoCode(city_name),
                                city |-> city_name,
                                point |-> CHOOSE p \in coords : TRUE]
                   IN [attendee_locations |-> DictSet(acc.attendee_locations, item),
                       custom_cities |-> DictSet(acc.custom_cities, item)]
              ELSE acc)

\* build_attendee_candidates(attendees).
build_attendee_candidates(attendees, found) ==
    BuildLoop(attendees, found, 1,
              [attendee_locations |-> <<>>, custom_cities |-> <<>>])

\* add_custom_cities(custom_cities_dict): a copy of the table, updated.
add_custom_cities(custom_cities_dict) ==
    DictUpdate(CANDIDATE_CITIES, custom_cities_dict)

\* get_candidates_with_custom(custom_cities_dict), never called with None
\* by the filter.
get_candidates_with_custom(custom_cities_dict) ==
    add_custom_cities(custom_cities_dict)

\* What get_filtered_candidates returns: the "error" key (None when absent)
\* and the keys that come with a polygon.
FilterError(message) ==
    [error |-> {message}, has_polygon |-> FALSE, polygon_vertices |-> <<>>,
     attendee_locations |-> <<>>, filtered_candidates |-> <<>>]

\* get_filtered_candidates(attendees): the possible results (the polygon's
\* first vertex is the library's choice).
get_filtered_candidates(attendees, found) ==
    LET built == build_attendee_candidates(attendees, found)
        base_candidates == get_candidates_with_custom(built.custom_cities)
    IN IF built.attendee_locations = <<>>
       THEN {FilterError("Could not locate any attendee cities")}
       ELSE {LET filtered == filter_candidates_by_polygon(base_candidates,
                                                          polygon_vertices, <<>>)
             IN IF filtered.status # "ok"
                THEN FilterError("Error filtering candidates")
                ELSE [error |-> IF filtered.value = {<<>>}
                                THEN {"No candidate cities found within polygon"}
                                ELSE {},
                      has_polygon |-> TRUE,
                      polygon_vertices |-> polygon_vertices,
                      attendee_locations |-> built.attendee_locations,
                      filtered_candidates |-> CHOOSE r \in filtered.value : TRUE] :
             polygon_vertices \in
                 calculate_bounding_polygon(built.attendee_locations)}

\* --------------------------------------------------- SpecConn: the calls

\* The arguments the model calls get_connecting_flights with:
\* min_connection_mins and max_connection_mins are the defaults, max_emissions
\* is None (main.py passes None through) or the default, max_journey_time is
\* None or a bound.
ConnArgs ==
    [origin : {"AAA", "aaa"}, destination : {"ZZZ"},
     min_connection_mins : {40}, max_connection_mins : {300},
     limit : {-1, 0, 1, 2},
     max_emissions : {{}, {300}},
     max_journey_time : {{}, {500}}]

\* The state of the component a specification leaves alone.
ConnIdle ==
    /\ cSchedule = load_schedule(FALSE, <<>>)
    /\ cArgs = CHOOSE a \in ConnArgs : TRUE
    /\ cResult = NotCalled
    /\ cStream = NotStarted

ScoreIdle ==
    /\ sTable = [has_total_co2 |-> FALSE, has_max_travel_hours |-> FALSE,
                 rows |-> <<>>]
    /\ sNorm = NotCalled
    /\ sRank = [status |-> "none"]

OptIdle ==
    /\ oEnv = [data |-> "load_raises", flights |-> {},
               filter |-> [kind |-> "raises", codes |-> {}]]
    /\ oInput = OptNotCalled
    /\ oArgs = OptNotCalled
    /\ oResult = OptNotCalled
    /\ oOutput = OptNotCalled

GeomIdle ==
    /\ gCall = "none"
    /\ gPoint = <<0, 0>>
    /\ gPolygon = <<>>
    /\ gInside = OptNotCalled
    /\ gLocations = <<>>
    /\ gSplit = 0
    /\ gPool = <<>>
    /\ gKept = [status |-> "none"]

FilterIdle ==
    /\ fAttendees = <<>>
    /\ fFound = {}
    /\ fResult = OptNotCalled

EstIdle ==
    /\ eUser = "SYD"
    /\ eCandidate = "SYD"
    /\ eSpeeds = <<>>
    /\ eBest = OptNotCalled

PoolIdle ==
    /\ pTable = CANDIDATE_CITIES
    /\ pReq = <<>>

ExtIdle == GeomIdle /\ FilterIdle /\ EstIdle /\ PoolIdle

InitConn ==
    /\ ScoreIdle
    /\ OptIdle
    /\ ExtIdle
    /\ \E files_found \in BOOLEAN :
         \E rows \in SeqsUpTo(ScheduleLegs, MaxLegs) :
           /\ files_found \/ rows = <<>>
           /\ cSchedule = load_schedule(files_found, rows)
    /\ cArgs \in ConnArgs
    /\ cResult = NotCalled
    /\ cStream = NotStarted

CallGetConnectingFlights ==
    /\ cResult.status = "none"
    /\ cResult' = get_connecting_flights(cSchedule, cArgs)
    /\ UNCHANGED <<cSchedule, cArgs, cStream>>
    /\ UNCHANGED scoreVars
    /\ UNCHANGED optVars
    /\ UNCHANGED extVars

\* next() on the generator stream_connecting_flights(schedule, emissions,
\* ...) returned for the same arguments: its body runs to the next yield, to
\* its end or to an exception.
NextOfStreamConnectingFlights ==
    /\ cStream.status \in {"none", "suspended"}
    /\ cStream' = stream_connecting_flights(cSchedule, cArgs, cStream)
    /\ UNCHANGED <<cSchedule, cArgs, cResult>>
    /\ UNCHANGED scoreVars
    /\ UNCHANGED optVars
    /\ UNCHANGED extVars

NextConn == CallGetConnectingFlights \/ NextOfStreamConnectingFlights

SpecConn == InitConn /\ [][NextConn]_vars

\* -------------------------------------------------- SpecScore: the calls

\* The cells of the two metric columns.
Co2Cells == {{}, {0}, {1}, {3}}
TimeCells == {{}, {0}, {1}}

\* The frames given to normalize_results: up to MaxRows rows; a frame may lack
\* either metric column, and then holds no cell of it.
ScoreTables ==
    {t \in [has_total_co2 : BOOLEAN, has_max_travel_hours : BOOLEAN,
            rows : SeqsUpTo([total_co2 : Co2Cells, max_travel_hours : TimeCells],
                            MaxRows)] :
        \A i \in 1..Len(t.rows) :
            /\ ~t.has_total_co2 => t.rows[i].total_co2 = {}
            /\ ~t.has_max_travel_hours => t.rows[i].max_travel_hours = {}}

\* The weights given to calculate_best_option: a dict that holds or lacks
\* each of 'time', 'co2' and 'cost', or something that is no dict.
ScoreWeights ==
    [is_dict : {TRUE}, time : {{}, {0}, {1}, {2}}, co2 : {{}, {0}, {1}},
     cost : {{}, {1}}]
    \cup {[is_dict |-> FALSE, time |-> {}, co2 |-> {}, cost |-> {}]}

InitScore ==
    /\ ConnIdle
    /\ OptIdle
    /\ ExtIdle
    /\ sTable \in ScoreTables
    /\ sNorm = NotCalled
    /\ sRank = [status |-> "none"]

CallNormalizeResults ==
    /\ sNorm.status = "none"
    /\ sNorm' = Ok(normalize_results(sTable))
    /\ UNCHANGED <<sTable, sRank>>
    /\ UNCHANGED connVars
    /\ UNCHANGED optVars
    /\ UNCHANGED extVars

CallCalculateBestOption ==
    /\ sNorm.status = "ok"
    /\ sRank.status = "none"
    /\ \E weights \in ScoreWeights :
         LET scores == [i \in 1..Len(sNorm.value) |->
                           FinalScore(sNorm.value[i], weights)]
         IN \E best \in (IF Len(scores) = 0 THEN {0} ELSE BestRows(scores)) :
              sRank' = calculate_best_option(sNorm.value, weights, best)
    /\ UNCHANGED <<sTable, sNorm>>
    /\ UNCHANGED connVars
    /\ UNCHANGED optVars
    /\ UNCHANGED extVars

NextScore == CallNormalizeResults \/ CallCalculateBestOption

SpecScore == InitScore /\ [][NextScore]_vars

\* ---------------------------------------------------- SpecOpt: the calls

\* What get_filtered_candidates may do: raise, return an error dict, or
\* return filtered_candidates, a part of the table (possibly none of it).
FilterOutcomes ==
    {[kind |-> "raises", codes |-> {}], [kind |-> "error", codes |-> {}]}
    \cup [kind : {"ok"}, codes : SUBSET Range(CandidateTable)]

\* The data files and the filter's outcome.
OptEnvs ==
    [data : {"load_raises", "stream_raises"}, flights : {{}},
     filter : FilterOutcomes]
    \cup [data : {"ok"}, flights : SUBSET OptFlights, filter : FilterOutcomes]

\* The weights, in tenths (the dashboard's sliders step by 0.1).
TimeWeights == {0, 5, 10}
EmissionsWeights == {0, 5}

\* The input_data and weights the dashboard calls convert_input_to_output
\* with: the attendee cities in the order of the dict, and the two strings of
\* the availability window.
DashInputs ==
    [attendees : DistinctSeqs(AttendeeCityNames, MaxAttendees),
     availability_window :
         [start : {"2025-12-10T09:00:00Z", "2025-12-10 09:00:00+00:00", "soon"},
          end : {"2025-12-10T09:00:00Z", "2025-12-10T17:00:00Z",
                 "2025-12-15T17:00:00Z", "later"}],
     time_weight : TimeWeights,
     emissions_weight : EmissionsWeights]

\* The arguments of a direct call of score_meeting_location, built as
\* test_scoring.py builds them: attendee_coords holds the attendee cities
\* found in the candidate table, candidate_cities is any choice of candidates.
DirectArgs ==
    {[attendees |-> at,
      attendee_coords |->
          [c \in {x \in Range(at) : city_to_coords(x) # {}} |->
              CHOOSE p \in city_to_coords(c) : TRUE],
      candidates |-> ca,
      start_date |-> sd,
      end_date |-> ed,
      time_limit_hours |-> tl,
      time_weight |-> tw,
      emissions_weight |-> ew] :
        at \in DistinctSeqs(AttendeeCityNames, MaxAttendees),
        ca \in DistinctSeqs(Range(CandidateTable), MaxCandidates),
        sd \in {"2025-12-10", "soon"},
        ed \in {"2025-12-15", "later"},
        tl \in {0, 8, 128},
        tw \in TimeWeights,
        ew \in EmissionsWeights}

\* The dashboard's request, or a direct call of the scorer.
InitOpt ==
    /\ ConnIdle
    /\ ScoreIdle
    /\ ExtIdle
    /\ oEnv \in OptEnvs
    /\ \/ /\ oInput \in {OptOk({i}) : i \in DashInputs}
          /\ oArgs = OptNotCalled
       \/ /\ oEnv.filter.kind = "raises"
          /\ oInput = OptNotCalled
          /\ oArgs \in {OptOk({a}) : a \in DirectArgs}
    /\ oResult = OptNotCalled
    /\ oOutput = OptNotCalled

CallConvertInputToOutput ==
    /\ oInput.status = "ok"
    /\ oOutput.status = "none"
    /\ LET r == convert_input_to_output(CHOOSE i \in oInput.value : TRUE, oEnv)
       IN /\ oArgs' = r.args
          /\ oResult' = r.result
          /\ oOutput' = r.output
    /\ UNCHANGED <<oEnv, oInput>>
    /\ UNCHANGED connVars
    /\ UNCHANGED scoreVars
    /\ UNCHANGED extVars

CallScoreMeetingLocation ==
    /\ oInput.status = "none"
    /\ oArgs.status = "ok"
    /\ oResult.status = "none"
    /\ oResult' = score_meeting_location(CHOOSE a \in oArgs.value : TRUE, oEnv)
    /\ UNCHANGED <<oEnv, oInput, oArgs, oOutput>>
    /\ UNCHANGED connVars
    /\ UNCHANGED scoreVars
    /\ UNCHANGED extVars

NextOpt == CallConvertInputToOutput \/ CallScoreMeetingLocation

SpecOpt == InitOpt /\ [][NextOpt]_vars

\* ------------------------------------------------- SpecGeom: the calls

\* The points of the model: a grid of integer coordinates.
GridPoints == {<<x, y>> : x \in 0..MaxLat, y \in 0..MaxLon}

\* The attendee_locations dicts: at most MaxLocations distinct points, under
\* the keys L1, L2, ...
LocationDicts ==
    LET codes == <<"L1", "L2", "L3", "L4", "L5", "L6">>
    IN {[i \in 1..Len(q) |-> [code |-> codes[i], city |-> codes[i],
                              point |-> q[i]]] :
           q \in DistinctSeqs(GridPoints, MaxLocations)}

\* The candidate dicts: one to MaxPool candidates anywhere on the grid, under
\* the keys P1, P2, ...
CandidatePools ==
    LET codes == <<"P1", "P2", "P3">>
    IN {[i \in 1..Len(q) |-> [code |-> codes[i], city |-> codes[i],
                              point |-> q[i]]] :
           q \in SeqsUpTo(GridPoints, MaxPool) \ {<<>>}}

InitGeom ==
    /\ ConnIdle
    /\ ScoreIdle
    /\ OptIdle
    /\ FilterIdle
    /\ EstIdle
    /\ PoolIdle
    /\ \/ /\ gCall = "point_in_polygon"
          /\ gPoint \in GridPoints
          /\ gPolygon \in DistinctSeqs(GridPoints, MaxVertices)
          /\ gLocations = <<>>
          /\ gSplit = 0
          /\ gPool = <<>>
       \/ /\ gCall = "filter_candidates_by_polygon"
          /\ gPoint = <<0, 0>>
          /\ gPolygon = <<>>
          /\ gLocations \in LocationDicts
          /\ gSplit \in 0..Len(gLocations)
          /\ gPool \in CandidatePools
    /\ gInside = OptNotCalled
    /\ gKept = [status |-> "none"]

\* point_in_polygon(gPoint, gPolygon).
CallPointInPolygon ==
    /\ gCall = "point_in_polygon"
    /\ gInside.status = "none"
    /\ gInside' = point_in_polygon(gPoint, gPolygon)
    /\ UNCHANGED <<gCall, gPoint, gPolygon, gLocations, gSplit, gPool, gKept>>
    /\ UNCHANGED <<connVars, scoreVars, optVars, filterVars, estVars, poolVars>>

\* filter_candidates_by_polygon(gPool, calculate_bounding_polygon(L)) for
\* the first gSplit locations and for all of them.
CallFilterCandidatesByPolygon ==
    /\ gCall = "filter_candidates_by_polygon"
    /\ gKept.status = "none"
    /\ \E polygon_a \in calculate_bounding_polygon(Take(gLocations, gSplit)) :
         \E polygon_b \in calculate_bounding_polygon(gLocations) :
           gKept' = [status |-> "done",
                     polygon_a |-> polygon_a,
                     polygon_b |-> polygon_b,
                     kept_a |-> filter_candidates_by_polygon(gPool, polygon_a, <<>>),
                     kept_b |-> filter_candidates_by_polygon(gPool, polygon_b, <<>>)]
    /\ UNCHANGED <<gCall, gPoint, gPolygon, gLocations, gSplit, gPool, gInside>>
    /\ UNCHANGED <<connVars, scoreVars, optVars, filterVars, estVars, poolVars>>

NextGeom == CallPointInPolygon \/ CallFilterCandidatesByPolygon

SpecGeom == InitGeom /\ [][NextGeom]_vars

\* ----------------------------------------------- SpecFilter: the calls

InitFilter ==
    /\ ConnIdle
    /\ ScoreIdle
    /\ OptIdle
    /\ GeomIdle
    /\ EstIdle
    /\ PoolIdle
    /\ fAttendees \in SeqsUpTo(FilterCityNames, MaxAttendees)
    /\ fFound \in SUBSET GeocodedCities
    /\ fResult = OptNotCalled

\* get_filtered_candidates(fAttendees).
CallGetFilteredCandidates ==
    /\ fResult.status = "none"
    /\ \E result \in get_filtered_candidates(fAttendees, fFound) :
         fResult' = OptOk({result})
    /\ UNCHANGED <<fAttendees, fFound>>
    /\ UNCHANGED <<connVars, scoreVars, optVars, geomVars, estVars, poolVars>>

NextFilter == CallGetFilteredCandidates

SpecFilter == InitFilter /\ [][NextFilter]_vars

\* -------------------------------------------------- SpecEst: the calls

\* The speeds dict of a call is custom_speeds or any dict of at most
\* MaxModes modes.
InitEst ==
    /\ ConnIdle
    /\ ScoreIdle
    /\ OptIdle
    /\ GeomIdle
    /\ FilterIdle
    /\ PoolIdle
    /\ eUser \in Range(CandidateTable)
    /\ eCandidate \in Range(CandidateTable)
    /\ eSpeeds \in
           {custom_speeds}
           \cup {q \in SeqsUpTo([mode : {"walking", "driving", "flying"},
                                 speed : {5, 800}], MaxModes) :
                   \A i, j \in 1..Len(q) : i # j => q[i].mode # q[j].mode}
    /\ eBest = OptNotCalled

\* get_best_travel_time(eUser, eCandidate, eSpeeds).
CallGetBestTravelTime ==
    /\ eBest.status = "none"
    /\ eBest' = OptOk({get_best_travel_time(eUser, eCandidate, eSpeeds)})
    /\ UNCHANGED <<eUser, eCandidate, eSpeeds>>
    /\ UNCHANGED <<connVars, scoreVars, optVars, geomVars, filterVars, poolVars>>

NextEst == CallGetBestTravelTime

SpecEst == InitEst /\ [][NextEst]_vars

\* ------------------------------------- SpecPool: concurrent requests

\* updated_cities = CANDIDATE_CITIES: the name bound to the table itself.
TableAlias(table) == [shared |-> TRUE, items |-> table]

\* CANDIDATE_CITIES.copy(): a new dict with the table's items.
TableCopy(table) == [shared |-> FALSE, items |-> table]

\* The requests in flight.
Requests == {"r1", "r2"}

\* A request before its first step.
NewRequest(kind, attendees) ==
    [kind |-> kind, attendees |-> attendees, pc |-> "start",
     attendee_locations |-> <<>>, custom_cities |-> <<>>,
     pool |-> TableCopy(<<>>), filtered |-> OptNotCalled]

\* The dict a request's pool names: the global table or the request's own.
PoolItems(r) == IF pReq[r].pool.shared THEN pTable ELSE pReq[r].pool.items

InitPool ==
    /\ ConnIdle
    /\ ScoreIdle
    /\ OptIdle
    /\ GeomIdle
    /\ FilterIdle
    /\ EstIdle
    /\ pTable = CANDIDATE_CITIES
    /\ pReq \in [Requests ->
                  {NewRequest(kind, attendees) :
                      kind \in {"filter", "score"},
                      attendees \in SeqsUpTo({"Sydney", "Perth", "Perugia"},
                                             MaxAttendees)}]

\* get_filtered_candidates, first step: build_attendee_candidates reads the
\* table through get_candidate_cities().
PoolBuild(r) ==
    /\ pReq[r].kind = "filter" /\ pReq[r].pc = "start"
    /\ LET built == build_attendee_candidates(pReq[r].attendees, GeocodedCities)
       IN pReq' = [pReq EXCEPT ![r] =
                     [@ EXCEPT !.attendee_locations = built.attendee_locations,
                               !.custom_cities = built.custom_cities,
                               !.pc = IF built.attendee_locations = <<>>
                                      THEN "done" ELSE "built"]]
    /\ UNCHANGED pTable
    /\ UNCHANGED <<connVars, scoreVars, optVars, geomVars, filterVars, estVars>>

\* add_custom_cities, first statement: updated_cities = CANDIDATE_CITIES.copy().
PoolCopy(r) ==
    /\ pReq[r].pc = "built"
    /\ pReq' = [pReq EXCEPT ![r] = [@ EXCEPT !.pool = TableCopy(pTable),
                                             !.pc = "copied"]]
    /\ UNCHANGED pTable
    /\ UNCHANGED <<connVars, scoreVars, optVars, geomVars, filterVars, estVars>>

\* add_custom_cities, second statement: updated_cities.update(custom_cities_dict)
\* changes the dict that updated_cities names.
PoolUpdate(r) ==
    /\ pReq[r].pc = "copied"
    /\ IF pReq[r].pool.shared
       THEN /\ pTable' = DictUpdate(pTable, pReq[r].custom_cities)
            /\ pReq' = [pReq EXCEPT ![r] = [@ EXCEPT !.pc = "updated"]]
       ELSE /\ pReq' = [pReq EXCEPT ![r] =
                          [@ EXCEPT !.pool.items =
                                        DictUpdate(@, pReq[r].custom_cities),
                                    !.pc = "updated"]]
            /\ UNCHANGED pTable
    /\ UNCHANGED <<connVars, scoreVars, optVars, geomVars, filterVars, estVars>>

\* filter_candidates_by_polygon over the request's pool and polygon.
PoolFilter(r) ==
    /\ pReq[r].pc = "updated"
    /\ \E polygon \in calculate_bounding_polygon(pReq[r].attendee_locations) :
         pReq' = [pReq EXCEPT ![r] =
                    [@ EXCEPT !.filtered =
                                  filter_candidates_by_polygon(PoolItems(r),
                                                               polygon, <<>>),
                              !.pc = "done"]]
    /\ UNCHANGED pTable
    /\ UNCHANGED <<connVars, scoreVars, optVars, geomVars, filterVars, estVars>>

\* An optimisation request: its candidates are a dict built from the items
\* of CANDIDATE_CITIES, and score_meeting_location changes no dict it is
\* given.
PoolScore(r) ==
    /\ pReq[r].kind = "score" /\ pReq[r].pc = "start"
    /\ pReq' = [pReq EXCEPT ![r] = [@ EXCEPT !.pool = TableCopy(pTable),
                                             !.pc = "done"]]
    /\ UNCHANGED pTable
    /\ UNCHANGED <<connVars, scoreVars, optVars, geomVars, filterVars, estVars>>

NextPool ==
    \E r \in Requests :
        \/ PoolBuild(r)
        \/ PoolCopy(r)
        \/ PoolUpdate(r)
        \/ PoolFilter(r)
        \/ PoolScore(r)

SpecPool == InitPool /\ [][NextPool]_vars

\* ------------------------------------------------ SpecConn: the claims

\* A clock time of the schedule (HHMM digits as an integer) as minutes since
\* midnight.
MinutesSinceMidnight(hhmm) == (hhmm \div 100) * 60 + (hhmm % 100)

\* second-leg departure minus first-leg arrival, in minutes.
WaitMinutes(c) ==
    MinutesSinceMidnight(c.second_flight.DEPTIM)
        - MinutesSinceMidnight(c.first_flight.ARRTIM)

ConnReturned == cResult.status = "ok"

\* C1: every returned connection waits between min_connection_mins and
\* max_connection_mins minutes at the connection airport and has a total CO2
\* of at most max_emissions.  The code compares the HHMM integers, so a leg
\* arriving 08:50 connects to one leaving 09:00 under a 40 minute minimum.
C1_WaitAndEmissionsWithinBounds ==
    ConnReturned =>
        \A k \in 1..Len(cResult.value) :
            LET c == cResult.value[k] IN
            /\ cArgs.min_connection_mins <= WaitMinutes(c)
            /\ WaitMinutes(c) <= cArgs.max_connection_mins
            /\ \A m \in cArgs.max_emissions : c.total_co2_emissions <= m

\* Whether the pair (f, s) is a connection the search accepts: the second leg
\* leaves the first leg's arrival airport inside the window, both legs have a
\* CO2 value, and the emissions and journey-time bounds (when given) hold.
ValidPair(f, s, a) ==
    /\ s.DEPAPT = f.ARRAPT
    /\ s.DEPTIM >= f.ARRTIM + a.min_connection_mins
    /\ s.DEPTIM <= f.ARRTIM + a.max_connection_mins
    /\ f.co2 # {} /\ s.co2 # {}
    /\ \A m \in a.max_emissions : \A x \in f.co2 : \A y \in s.co2 : x + y <= m
    /\ \A m \in a.max_journey_time : JourneyTime(f, s) <= m

\* Every valid (first leg, second leg) pair of the schedule in discovery
\* order: first legs in dataset order, and for each its second legs in
\* dataset order.
AllValidPairs(schedule, a) ==
    LET joined == JoinWithEmissions(schedule.rows)
        ff == FirstFlights(joined, a)
        sf == SecondFlights(joined, a)
        n == Len(sf)
        pairs == [k \in 1..(Len(ff) * n) |->
                     <<ff[((k - 1) \div n) + 1], sf[((k - 1) % n) + 1]>>]
        V(p) == ValidPair(p[1], p[2], a)
    IN SelectSeq(pairs, V)

\* C2: the returned list is the first `limit` valid pairs in discovery order
\* (none when limit <= 0).
C2_FirstLimitPairsInDiscoveryOrder ==
    ConnReturned =>
        LET expected == Take(AllValidPairs(cSchedule, cArgs), cArgs.limit) IN
        /\ Len(cResult.value) = Len(expected)
        /\ \A k \in 1..Len(expected) :
               /\ cResult.value[k].first_flight = expected[k][1]
               /\ cResult.value[k].second_flight = expected[k][2]

\* C2 witness: a schedule with more valid pairs than limit >= 1, cut at limit.
C2_Witness_Truncated ==
    /\ ConnReturned
    /\ cArgs.limit >= 1
    /\ Len(AllValidPairs(cSchedule, cArgs)) > cArgs.limit
    /\ Len(cResult.value) = cArgs.limit

\* An emissions bound above every pair's total CO2.
AboveEveryTotal ==
    LET values == UNION {l.co2 : l \in ScheduleLegs}
        top == CHOOSE v \in values : \A w \in values : w <= v
    IN 2 * top + 1

\* C3: with max_emissions = None the call returns what it returns under a
\* bound above every total, whenever that bounded call returns.
C3_NoBoundWhenMaxEmissionsIsNone ==
    LET bounded == get_connecting_flights(cSchedule,
                       [cArgs EXCEPT !.max_emissions = {AboveEveryTotal}])
    IN (/\ cResult.status # "none"
        /\ cArgs.max_emissions = {}
        /\ bounded.status = "ok")
       => cResult = bounded

\* C4: with no schedule file in the range, or no leg leaving the origin, or
\* no leg arriving at the destination, the call returns the empty list.
C4_EmptyWhenNoDataOrNoLegs ==
    LET joined == JoinWithEmissions(cSchedule.rows) IN
    (/\ cResult.status # "none"
     /\ \/ ~cSchedule.has_columns
        \/ FirstFlights(joined, cArgs) = <<>>
        \/ SecondFlights(joined, cArgs) = <<>>)
    => cResult = Ok(<<>>)

\* ----------------------------------------------- SpecScore: the claims

Normalized == sNorm.status = "ok"
Ranked == sRank.status = "ranked"

\* A normalized value in [0,1].
InUnit(x) == ~x.nan /\ 0 <= x.num /\ x.num <= x.den
IsZero(x) == ~x.nan /\ x.num = 0

\* The values (not null) of a column of sTable.
Co2Values == UNION {sTable.rows[i].total_co2 : i \in 1..Len(sTable.rows)}
TimeValues == UNION {sTable.rows[i].max_travel_hours : i \in 1..Len(sTable.rows)}

\* C5: normalize_results gives every row a co2_norm and a time_norm in [0,1];
\* a column whose values are all equal, and a column that is absent or
\* entirely null, gives exactly 0 in every row.  A column that is null in
\* some rows only gives those rows NaN.
C5_NormalizedInUnitInterval ==
    Normalized =>
        \A i \in 1..Len(sNorm.value) :
            /\ InUnit(sNorm.value[i].co2_norm)
            /\ InUnit(sNorm.value[i].time_norm)
            /\ Cardinality(Co2Values) <= 1 => IsZero(sNorm.value[i].co2_norm)
            /\ Cardinality(TimeValues) <= 1 => IsZero(sNorm.value[i].time_norm)

\* C6: the winner's final_score is the least final_score of the frame (NaN
\* ordered last, as the sort orders it), and the only row of a one-row frame
\* wins whatever the weights.
C6_WinnerHasMinimumScore ==
    Ranked =>
        LET scores == sRank.final_score
            w == sRank.winner
        IN /\ w \in 1..Len(scores)
           /\ \A j \in 1..Len(scores) : ~FLess(scores[j], scores[w])
           /\ scores[w].nan => \A j \in 1..Len(scores) : scores[j].nan
           /\ Len(scores) = 1 => w = 1

\* C6 witness: the winner is not the first row and beats another row.
C6_Witness_WinnerBeatsEarlierRow ==
    /\ Ranked
    /\ sRank.winner > 1
    /\ FLess(sRank.final_score[sRank.winner], sRank.final_score[1])

\* C7: every final_score that is a number lies in [0,1], whatever the
\* non-negative weights.  The weighted sum is not divided by the weights'
\* total: weights 1 and 1 score a row whose two norms are 1 as 2.
C7_CompositeScoreInUnitInterval ==
    Ranked =>
        \A i \in 1..Len(sRank.final_score) :
            ~sRank.final_score[i].nan => InUnit(sRank.final_score[i])

\* The weight of a criterion, a missing one counting as 0.
WeightOrZero(w) == IF w = {} THEN 0 ELSE CHOOSE v \in w : TRUE

\* C8: a row's final_score is time_norm * weights['time'] + co2_norm *
\* weights['co2'] with a missing weight counting as the weight 0.  A missing
\* weight skips the criterion while the weight 0 multiplies it: the two
\* differ on a row whose norm is NaN.
C8_MissingWeightIsWeightZero ==
    (Ranked /\ sRank.weights.is_dict) =>
        \A i \in 1..Len(sRank.final_score) :
            LET row == sNorm.value[i]
                expected ==
                    FAdd(FMul(row.time_norm, WeightOrZero(sRank.weights.time)),
                         FMul(row.co2_norm, WeightOrZero(sRank.weights.co2)))
                got == sRank.final_score[i]
            IN \/ got.nan /\ expected.nan
               \/ FEq(got, expected)

\* -------------------------------------------------- SpecOpt: the claims

\* The arguments, the result and the output of the run, once there.
TheArgs == CHOOSE a \in oArgs.value : TRUE
TheResult == CHOOSE r \in oResult.value : TRUE
TheOutput == CHOOSE o \in oOutput.value : TRUE

\* score_meeting_location returned a best candidate.
HasWinner ==
    /\ oArgs.status = "ok"
    /\ oResult.status = "ok"
    /\ TheResult.best_candidate # {}

Winner == CHOOSE c \in TheResult.best_candidate : TRUE

\* convert_input_to_output returned an output.
HasOutput == oOutput.status = "ok" /\ oOutput.value # {}

\* The travel hours the run computes for an attendee to a candidate.
HoursTo(attendee_city, candidate_code) ==
    PairRoute(attendee_city, candidate_code, TheArgs, oEnv).hours

\* C9: a run that returns a winner names its city, and its
\* attendee_travel_hours has exactly the attendee cities as keys, each value
\* being the attendee's travel hours to the winner: as computed in the result
\* of score_meeting_location, rounded to two decimals in the output of
\* convert_input_to_output.
C9_TravelHoursAreToTheWinner ==
    /\ HasWinner =>
         /\ TheResult.best_candidate_name = {CandidateCity(Winner)}
         /\ DOMAIN TheResult.attendee_travel_hours = Range(TheArgs.attendees)
         /\ \A a \in Range(TheArgs.attendees) :
                TheResult.attendee_travel_hours[a] = HoursTo(a, Winner)
    /\ HasOutput =>
         /\ HasWinner
         /\ TheOutput.event_location = {CandidateCity(Winner)}
         /\ DOMAIN TheOutput.attendee_travel_hours = Range(TheArgs.attendees)
         /\ \A a \in Range(TheArgs.attendees) :
                TheOutput.attendee_travel_hours[a] = Round2(HoursTo(a, Winner))

\* C9 witness: an output whose winner is not the first candidate, with an
\* attendee whose travel hours to the winner and to the first candidate
\* differ after rounding.
C9_Witness_WinnerIsNotFirstCandidate ==
    /\ HasOutput
    /\ Len(TheArgs.candidates) >= 2
    /\ Winner # TheArgs.candidates[1]
    /\ \E a \in Range(TheArgs.attendees) :
           /\ TheOutput.attendee_travel_hours[a] = Round2(HoursTo(a, Winner))
           /\ Round2(HoursTo(a, Winner))
                  # Round2(HoursTo(a, TheArgs.candidates[1]))

\* C10: with an empty attendee map or a window that does not parse,
\* convert_input_to_output returns None and score_meeting_location returns
\* normally with best_candidate None, whatever the candidates.
C10_NoWinnerOnInputError ==
    /\ (/\ oInput.status = "ok"
        /\ oOutput.status # "none"
        /\ LET input == CHOOSE i \in oInput.value : TRUE
           IN \/ input.attendees = <<>>
              \/ FromIsoFormat(input.availability_window.start) = {}
              \/ FromIsoFormat(input.availability_window.end) = {})
           => oOutput = OptOk({})
    /\ (/\ oArgs.status = "ok"
        /\ oResult.status # "none"
        /\ \/ TheArgs.attendees = <<>>
           \/ Strptime(TheArgs.start_date) = {}
           \/ Strptime(TheArgs.end_date) = {})
           => /\ oResult.status = "ok"
              /\ TheResult.best_candidate = {}

\* C10 witness: a direct call without attendees and with candidates, whose
\* data loaded: every candidate was scored 1.0 and none is best.
C10_Witness_CandidatesWithoutAttendees ==
    /\ oInput.status = "none"
    /\ oArgs.status = "ok"
    /\ oResult.status = "ok"
    /\ TheArgs.attendees = <<>>
    /\ Len(TheArgs.candidates) >= 2
    /\ DOMAIN TheResult.scores = Range(TheArgs.candidates)
    /\ \A c \in Range(TheArgs.candidates) : TheResult.scores[c] = One
    /\ TheResult.best_candidate = {}

\* C11: when the flight data is unavailable, a call with attendees (all with
\* coordinates), candidates and dates that parse returns normally with a best
\* candidate, and every attendee's travel hours to it are the estimate of
\* get_best_travel_time.  When loading the data raises, the call returns
\* without a best candidate instead.
C11_EstimateWhenDataUnavailable ==
    (/\ oArgs.status = "ok"
     /\ oResult.status # "none"
     /\ oEnv.data # "ok"
     /\ TheArgs.attendees # <<>>
     /\ TheArgs.candidates # <<>>
     /\ Range(TheArgs.attendees) \subseteq DOMAIN TheArgs.attendee_coords
     /\ Strptime(TheArgs.start_date) # {}
     /\ Strptime(TheArgs.end_date) # {})
    => /\ HasWinner
       /\ \A a \in Range(TheArgs.attendees) :
              TheResult.attendee_travel_hours[a]
                  = HDiv(EstimateMinutes(TheArgs.attendee_coords[a],
                                              Winner), 60)

\* The point lies on the closed segment between two consecutive vertices of
\* the polygon (the last and the first included).
OnBoundary(point, polygon) ==
    \E i \in 1..Len(polygon) :
        LET p1 == polygon[i]
            p2 == polygon[(i % Len(polygon)) + 1]
        IN Cross(p1, p2, point) = 0 /\ Between(p1, p2, point)

\* C14: point_in_polygon returns True for every vertex of the polygon and
\* for every point on one of its edges, whatever the edge's direction.  A
\* point inside an edge along which the second coordinate is constant is
\* never recognised as a boundary point, and the crossing count puts it
\* outside when the polygon lies on the side of larger second coordinates.
C14_BoundaryPointsAreInside ==
    (/\ gCall = "point_in_polygon"
     /\ gInside.status # "none"
     /\ OnBoundary(gPoint, gPolygon))
    => gInside = OptOk({TRUE})

\* The number of candidates the filter kept; -1 when it raised.
KeptCount(outcome) ==
    IF outcome.status = "ok" THEN Len(CHOOSE r \in outcome.value : TRUE)
    ELSE -1

\* C15: for location dicts A and B with A's items among B's, the filter over
\* A's bounding polygon keeps no more candidates than the filter over B's.
\* A candidate at an attendee location that is a vertex of A's polygon is
\* lost when further attendees put it inside an edge of B's hull along
\* which the second coordinate is constant (the defect of C14).
C15_FilterMonotonicInAttendees ==
    (/\ gCall = "filter_candidates_by_polygon"
     /\ gKept.status = "done"
     /\ gKept.kept_a.status = "ok"
     /\ gKept.kept_b.status = "ok")
    => KeptCount(gKept.kept_a) <= KeptCount(gKept.kept_b)

\* The attendee cities of the call that are neither in the table nor found
\* by Nominatim.
Unlocatable ==
    {city_name \in Range(fAttendees) :
        /\ city_to_code(Lower(city_name)) = {}
        /\ get_coordinates_from_nominatim(city_name, fFound) = {}}

FilterResult == CHOOSE r \in fResult.value : TRUE

\* C12: when an attendee city cannot be located, get_filtered_candidates
\* returns an error without a polygon or filtered candidates built from the
\* other attendees.  build_attendee_candidates skips such a city silently,
\* and the result is built from the cities that remain.
C12_UnlocatableAttendeeAborts ==
    (/\ fResult.status = "ok"
     /\ Unlocatable # {})
    => /\ FilterResult.error # {}
       /\ ~FilterResult.has_polygon
       /\ FilterResult.filtered_candidates = <<>>

\* The geographic filter of the request yielded no candidate: it raised,
\* returned an error dict or returned no filtered candidate.
FilterYieldedNothing ==
    \/ oEnv.filter.kind # "ok"
    \/ oEnv.filter.codes \cap Range(CandidateTable) = {}

\* C13: the candidate set convert_input_to_output hands to
\* score_meeting_location is never empty, and it is the whole table of
\* CANDIDATE_CITIES when the geographic filter yields no candidate.
C13_FullTableWhenFilterYieldsNothing ==
    (/\ oInput.status = "ok"
     /\ oArgs.status = "ok")
    => /\ TheArgs.candidates # <<>>
       /\ FilterYieldedNothing => TheArgs.candidates = CandidateTable

\* A request whose filter returned an error dict was scored over the whole
\* table and has a winner.
C13_Witness_ErrorDictScoredOverTable ==
    /\ oInput.status = "ok"
    /\ oArgs.status = "ok"
    /\ oEnv.filter.kind = "error"
    /\ TheArgs.candidates = CandidateTable
    /\ HasWinner

TheBest == CHOOSE b \in eBest.value : TRUE

\* distance / speed * 60 for item i of the speeds of the call, in minutes.
ModeMinutes(i) ==
    Lowest(Frac(haversine(eUser, eCandidate) * 60, eSpeeds[i].speed))

\* The items of the speeds whose time no other item undercuts.
FastestModes ==
    {i \in 1..Len(eSpeeds) :
        \A j \in 1..Len(eSpeeds) : ~HLess(ModeMinutes(j), ModeMinutes(i))}

\* C16: get_best_travel_time returns the least distance / speed * 60 over
\* the modes, with the first mode of the dict's order that attains it; for
\* identical coordinates the time is 0 and the mode is the dict's first.
C16_LeastTimeWithFirstFastestMode ==
    (/\ eBest.status = "ok"
     /\ eSpeeds # <<>>)
    => LET first == CHOOSE i \in FastestModes : \A j \in FastestModes : i <= j
       IN /\ TheBest.time = {ModeMinutes(first)}
          /\ TheBest.mode = {eSpeeds[first].mode}
          /\ eUser = eCandidate
                => TheBest.time = {Zero} /\ TheBest.mode = {eSpeeds[1].mode}

\* A call with identical coordinates and two modes that both take no time
\* returned the first of them.
C16_Witness_ZeroDistanceTakesFirstMode ==
    /\ eBest.status = "ok"
    /\ eUser = eCandidate
    /\ Len(eSpeeds) >= 2
    /\ eSpeeds[1].speed # eSpeeds[2].speed
    /\ TheBest = [time |-> {Zero}, mode |-> {eSpeeds[1].mode}]

\* The CO2 of the route the run uses for an attendee to a candidate: the CO2
\* of its flights (the model has at most one flight per pair), 0 for a
\* distance estimate.
RouteCo2(attendee_city, candidate_code) ==
    LET route == PairRoute(attendee_city, candidate_code, TheArgs, oEnv)
    IN IF route.kind = "flights" THEN SumCo2(route.flights) ELSE 0

RECURSIVE TotalCo2(_, _)
\* The sum of RouteCo2 over a set of attendees.
TotalCo2(attendee_cities, candidate_code) ==
    IF attendee_cities = {} THEN 0
    ELSE LET a == CHOOSE x \in attendee_cities : TRUE
         IN RouteCo2(a, candidate_code)
                + TotalCo2(attendee_cities \ {a}, candidate_code)

TravelScoreOverAllAttendees(candidate_code) ==
    IF TheArgs.time_limit_hours > 0
    THEN HMin(HDiv(HMax({HoursTo(a, candidate_code) :
                            a \in Range(TheArgs.attendees)}),
                   TheArgs.time_limit_hours), One)
    ELSE Zero

\* C19: a candidate is scored on the longest travel hours over all the
\* attendees; with the whole weight on time its score is the travel-time
\* score of that maximum.  The scoring loop reads the route options of the
\* first attendee only.
C19_ScoredOnLongestTravelOfAllAttendees ==
    (/\ oArgs.status = "ok"
     /\ oResult.status = "ok"
     /\ TheArgs.attendees # <<>>
     /\ TheArgs.time_weight > 0
     /\ TheArgs.emissions_weight = 0)
    => \A c \in DOMAIN TheResult.scores :
           TheResult.scores[c] = TravelScoreOverAllAttendees(c)

\* The per-candidate metrics as a frame for normalize_results: one row per
\* candidate with the longest travel hours of any attendee (in 1/2400 h, a
\* unit in which every travel time of the model is whole) and the total CO2
\* of the attendees' routes.
CandidateMetrics ==
    [has_total_co2 |-> TRUE, has_max_travel_hours |-> TRUE,
     rows |-> [idx \in 1..Len(TheArgs.candidates) |->
        LET longest == HMax({HoursTo(a, TheArgs.candidates[idx]) :
                                a \in Range(TheArgs.attendees)})
        IN [total_co2 |-> {TotalCo2(Range(TheArgs.attendees),
                                    TheArgs.candidates[idx])},
            max_travel_hours |-> {longest.num * (2400 \div longest.den)}]]]

\* The final_score calculate_best_option gives the rows of the normalized
\* metrics under the request's weights, in lowest terms.
RankerScores ==
    LET ndf == normalize_results(CandidateMetrics)
        weights == [is_dict |-> TRUE, time |-> {TheArgs.time_weight},
                    co2 |-> {TheArgs.emissions_weight}, cost |-> {}]
    IN [idx \in 1..Len(ndf) |-> Lowest(FinalScore(ndf[idx], weights))]

\* C20: the best candidate of score_meeting_location is a row that
\* normalize_results followed by calculate_best_option ranks first on the
\* per-candidate metrics: no candidate has a smaller weighted sum of the
\* min-max-normalized longest travel hours and total CO2.  The result of
\* compute_travel_scores is discarded and the winner comes from a loop that
\* scores hours / time_limit_hours and avg CO2 / 500 of one attendee.
C20_WinnerIsTheRankersChoice ==
    (HasWinner /\ TheArgs.attendees # <<>>)
    => \E idx \in 1..Len(TheArgs.candidates) :
          /\ TheArgs.candidates[idx] = Winner
          /\ \A other \in 1..Len(TheArgs.candidates) :
                 ~HLess(RankerScores[other], RankerScores[idx])

\* The requests that have a candidate pool.
WithPool == {r \in Requests : pReq[r].pc \in {"copied", "updated", "done"}
                              /\ pReq[r].attendee_locations # <<>>}
           \cup {r \in Requests : pReq[r].kind = "score" /\ pReq[r].pc = "done"}

\* C18: under every interleaving of the requests' steps the global table
\* CANDIDATE_CITIES keeps its items, and the candidate pool and the filtered
\* candidates of a request hold items of the table and custom cities of that
\* request only.
C18_RequestsShareNoMutableState ==
    /\ pReq # <<>> => pTable = CANDIDATE_CITIES
    /\ \A r \in DOMAIN pReq :
         r \in WithPool =>
           /\ Range(PoolItems(r)) \subseteq
                  Range(CANDIDATE_CITIES) \cup Range(pReq[r].custom_cities)
           /\ \A kept \in pReq[r].filtered.value :
                  Range(kept) \subseteq
                      Range(CANDIDATE_CITIES) \cup Range(pReq[r].custom_cities)

\* Two filter requests with different custom cities under the same
\* pseudo-code have both merged theirs before either has filtered, and each
\* pool holds its own custom city.
C18_Witness_TwoPoolsWithOwnCustomCity ==
    /\ pReq # <<>>
    /\ pReq["r1"].pc = "updated" /\ pReq["r2"].pc = "updated"
    /\ pReq["r1"].custom_cities # <<>> /\ pReq["r2"].custom_cities # <<>>
    /\ Range(pReq["r1"].custom_cities) \cap Range(pReq["r2"].custom_cities) = {}
    /\ Range(pReq["r1"].custom_cities) \subseteq Range(PoolItems("r1"))
    /\ Range(pReq["r2"].custom_cities) \subseteq Range(PoolItems("r2"))

\* Every attendee's route to the candidate is a distance estimate.
OnlyEstimates(candidate_code) ==
    \A a \in Range(TheArgs.attendees) :
        PairRoute(a, candidate_code, TheArgs, oEnv).kind = "estimate"

\* C21: a pair without flights gets the estimate's hours, and a candidate
\* scored from distance estimates only has the emissions sub-score 0: with
\* the whole weight on emissions its score is 0.  The scoring loop gives such
\* a candidate the emissions sub-score 0.5.
C21_EstimateAddsNoEmissionsPenalty ==
    (/\ oArgs.status = "ok"
     /\ oResult.status = "ok"
     /\ TheArgs.attendees # <<>>
     /\ TheArgs.time_weight = 0
     /\ TheArgs.emissions_weight > 0)
    => /\ \A c \in DOMAIN TheResult.scores :
              OnlyEstimates(c) => TheResult.scores[c] = Zero
       /\ HasWinner /\ OnlyEstimates(Winner)
              => \A a \in Range(TheArgs.attendees) :
                     TheResult.attendee_travel_hours[a]
                         = HDiv(EstimateMinutes(TheArgs.attendee_coords[a],
                                                Winner), 60)

\* The elapsed minutes from the first leg's departure clock time to the second
\* leg's arrival clock time, with one day wrap.
ElapsedMinutes(first, second) ==
    LET d == MinutesSinceMidnight(second.ARRTIM)
                 - MinutesSinceMidnight(first.DEPTIM)
    IN IF d < 0 THEN d + 1440 ELSE d

\* C22: for every returned connection journey_time_minutes is the elapsed
\* minutes from the first leg's departure to the second leg's arrival on
\* minutes-since-midnight values with 1440 added once when negative; it lies
\* in [0, 1440) and is at most max_journey_time when that bound is set.  The
\* code subtracts the HHMM integers: 07:00 to 11:00 counts as 400 minutes.
C22_JourneyTimeIsElapsedClockMinutes ==
    ConnReturned =>
        \A k \in 1..Len(cResult.value) :
            LET c == cResult.value[k] IN
            /\ c.journey_time_minutes
                   = ElapsedMinutes(c.first_flight, c.second_flight)
            /\ 0 <= c.journey_time_minutes
            /\ c.journey_time_minutes < 1440
            /\ \A m \in cArgs.max_journey_time : c.journey_time_minutes <= m

\* Whether the second leg s leaves after midnight a connection airport the
\* first leg f reached late in the day, inside the connection window once
\* 1440 is added to the negative wait.
OvernightPair(f, s, a) ==
    LET d == MinutesSinceMidnight(s.DEPTIM) - MinutesSinceMidnight(f.ARRTIM)
    IN /\ s.DEPAPT = f.ARRAPT
       /\ d < 0
       /\ a.min_connection_mins <= d + 1440
       /\ d + 1440 <= a.max_connection_mins

\* C23: a first leg arriving late and a second leg departing after midnight,
\* whose wait after one day wrap lies in [min_connection_mins,
\* max_connection_mins], form a candidate connection: the pair is returned
\* when it meets the emissions and journey-time bounds and the limit leaves
\* room for it.  The code compares DEPTIM with ARRTIM + min_connection_mins
\* without any wrap, so no such pair is ever matched.
C23_OvernightWaitWrapsOnce ==
    (ConnReturned /\ Len(cResult.value) < cArgs.limit) =>
        LET joined == JoinWithEmissions(cSchedule.rows)
            ff == FirstFlights(joined, cArgs)
            sf == SecondFlights(joined, cArgs)
        IN \A i \in 1..Len(ff) : \A j \in 1..Len(sf) :
             (/\ OvernightPair(ff[i], sf[j], cArgs)
              /\ ff[i].co2 # {} /\ sf[j].co2 # {}
              /\ \A m \in cArgs.max_emissions :
                    \A x \in ff[i].co2 : \A y \in sf[j].co2 : x + y <= m
              /\ \A m \in cArgs.max_journey_time :
                    ElapsedMinutes(ff[i], sf[j]) <= m)
             => \E k \in 1..Len(cResult.value) :
                    /\ cResult.value[k].first_flight = ff[i]
                    /\ cResult.value[k].second_flight = sf[j]

\* Whether a leg of the schedule lacks its emissions value or its join key.
HasIncompleteLeg ==
    \E i \in 1..Len(cSchedule.rows) :
        cSchedule.rows[i].co2 = {} \/ ~cSchedule.rows[i].has_emissions

\* C24: legs with a missing emissions value or a missing join key are dropped
\* before the connection search: no returned connection holds a leg whose CO2
\* is null, and such legs never make the search raise.  The join drops the
\* legs without a key, but no drop_nulls follows it: a matched leg with a null
\* CO2 reaches the sum of the two emissions, None + float.
C24_IncompleteLegsAreDropped ==
    (/\ cResult.status # "none"
     /\ cSchedule.has_columns
     /\ cArgs.max_emissions # {}
     /\ HasIncompleteLeg)
    => /\ ConnReturned
       /\ \A k \in 1..Len(cResult.value) :
             /\ cResult.value[k].first_flight.co2 # {}
             /\ cResult.value[k].second_flight.co2 # {}

\* Whether the generator of stream_connecting_flights has finished.
StreamFinished == cStream.status \in {"exhausted", "raised"}

\* C29: get_connecting_flights and stream_connecting_flights are equivalent:
\* for the same schedule, emissions and arguments the connections yielded by
\* the generator are, element by element and in order, the list that
\* get_connecting_flights returns, for every limit; what the generator has
\* yielded so far is always a prefix of that list, and one of them raises
\* exactly when the other does.
C29_StreamYieldsWhatGetReturns ==
    cResult.status # "none" =>
        /\ (ConnReturned /\ cStream.status # "raised") =>
               /\ Len(cStream.yielded) <= Len(cResult.value)
               /\ \A k \in 1..Len(cStream.yielded) :
                      cStream.yielded[k] = cResult.value[k]
        /\ StreamFinished =>
               /\ (cStream.status = "raised") <=> (cResult.status = "raised")
               /\ ConnReturned => cStream.yielded = cResult.value

\* Both calls finished and the generator ended at the limit after yielding
\* two different connections.
C29_Witness_StreamOfTwoConnections ==
    /\ ConnReturned
    /\ cStream.status = "exhausted"
    /\ cArgs.limit = 2
    /\ Len(cStream.yielded) = 2
    /\ cStream.yielded[1] # cStream.yielded[2]

PoolAtVertices(polygon) ==
    LET AtVertex(item) == item.point \in Range(polygon)
    IN SelectSeq(gPool, AtVertex)

\* C26: degenerate polygons never make the filter raise.  For a polygon of 0
\* points point_in_polygon returns False and filter_candidates_by_polygon
\* keeps nothing; for a polygon of 1 point containment is True for exactly
\* that point and the filter keeps exactly the candidates at it.  With 0
\* points the code reads polygon_vertices[0] and raises IndexError.
C26_DegeneratePolygonsNeverRaise ==
    /\ (/\ gCall = "point_in_polygon"
        /\ gInside.status # "none"
        /\ Len(gPolygon) <= 1)
       => gInside = OptOk({Len(gPolygon) = 1 /\ gPoint = gPolygon[1]})
    /\ (/\ gCall = "filter_candidates_by_polygon"
        /\ gKept.status = "done"
        /\ Len(gKept.polygon_a) <= 1)
       => gKept.kept_a = OptOk({PoolAtVertices(gKept.polygon_a)})

\* Whether all the points of the locations lie on one line.
Collinear(locations) ==
    \A a, b, c \in Range(DictPoints(locations)) : Cross(a, b, c) = 0

\* What C27 says of the polygon built from the locations and of the filter's
\* outcome against it.
BoundingPolygonWellBehaved(locations, polygon, kept) ==
    /\ (Len(locations) < 3 \/ Collinear(locations))
          => polygon = DictPoints(locations)
    /\ Range(polygon) \subseteq Range(DictPoints(locations))
    /\ kept.status = "ok"
    /\ \A r \in kept.value : Range(r) \subseteq Range(gPool)

\* C27: calculate_bounding_polygon never raises: fewer than 3 locations and
\* collinear locations come back unmodified and in input order, otherwise the
\* hull's vertices are input points; and filter_candidates_by_polygon against
\* any of these results returns a subset of the candidates without raising.
\* For no location at all the result is the empty polygon, on which the
\* filter raises (C26).
C27_BoundingPolygonNeverRaises ==
    (gCall = "filter_candidates_by_polygon" /\ gKept.status = "done") =>
        /\ BoundingPolygonWellBehaved(Take(gLocations, gSplit),
                                      gKept.polygon_a, gKept.kept_a)
        /\ BoundingPolygonWellBehaved(gLocations,
                                      gKept.polygon_b, gKept.kept_b)

\* C28: the polygon built from the attendee locations encloses all of them:
\* point_in_polygon is True for every location against
\* calculate_bounding_polygon of the locations, so a candidate at an
\* attendee's location is retained by the filter.  A location inside a hull
\* edge along which the second coordinate is constant is not a hull vertex
\* and tests outside (the defect of C14).
C28_PolygonEnclosesAttendees ==
    (gCall = "filter_candidates_by_polygon" /\ gKept.status = "done") =>
        /\ \A p \in Range(DictPoints(gLocations)) :
               point_in_polygon(p, gKept.polygon_b) = OptOk({TRUE})
        /\ \A i \in 1..Len(gPool) :
               gPool[i].point \in Range(DictPoints(gLocations))
                   => /\ gKept.kept_b.status = "ok"
                      /\ \A r \in gKept.kept_b.value : gPool[i] \in Range(r)

\* The attendee cities of the call that resolve: in the table, or found by
\* Nominatim.
Resolvable ==
    {city_name \in Range(fAttendees) :
        \/ city_to_code(Lower(city_name)) # {}
        \/ get_coordinates_from_nominatim(city_name, fFound) # {}}

\* The attendee cities of the call that get a pseudo-code.
Geocoded == {city_name \in Resolvable : city_to_code(Lower(city_name)) = {}}

\* The key build_attendee_candidates stores a resolvable city under.
LocationKey(city_name) ==
    IF city_to_code(Lower(city_name)) # {}
    THEN CHOOSE k \in city_to_code(Lower(city_name)) : TRUE
    ELSE PseudoCode(city_name)

\* C30: build_attendee_candidates keeps one entry of attendee_locations per
\* resolvable attendee city: the number of entries is the number of distinct
\* resolvable cities, and the pseudo-code of a geocoded city is neither the
\* key of another attendee nor the code of a predefined candidate.  The
\* pseudo-code is the city's first three letters in upper case: "Perth" and
\* "Perugia" share "PER", and "Sydenham" takes "SYD", the code of Sydney.
C30_OneLocationPerResolvableCity ==
    fResult.status = "ok" =>
        LET built == build_attendee_candidates(fAttendees, fFound) IN
        /\ Len(built.attendee_locations)
               = Cardinality({Lower(city_name) : city_name \in Resolvable})
        /\ \A g \in Geocoded :
               /\ \A i \in 1..Len(CANDIDATE_CITIES) :
                      CANDIDATE_CITIES[i].code # PseudoCode(g)
               /\ \A other \in Resolvable :
                      Lower(other) # Lower(g) => LocationKey(other) # PseudoCode(g)
        /\ \A r \in fResult.value :
               r.has_polygon => r.attendee_locations = built.attendee_locations

=============================================================================
